---- MODULE Spec2Model ----
(***************************************************************************)
(* Model of the Student Monthly Allowance Tracker (src/app.py): the        *)
(* persisted ledger document, load_data / save_data, the monthly rollover  *)
(* and the handlers of the dashboard and savings pages.                    *)
(*                                                                         *)
(* Text (month keys, ISO dates, category names, goal ids) is a sequence of *)
(* one-character strings.  Money is an integer number of thousandths.      *)
(***************************************************************************)
EXTENDS Integers, Sequences, FiniteSets, TLC

VARIABLES today, now, file, pc, data, last, rolled, edits

vars == <<today, now, file, pc, data, last, rolled, edits>>

(***************************************************************************)
(* Bounds of the model.                                                    *)
(***************************************************************************)
BaseYear == 2025       \* the calendar starts in December of this year
MonthSpan == 1         \* calendar months the clock can move beyond the first
BaseTs == 1762000000   \* first value of the POSIX clock
MaxEdits == 1          \* button presses that write the document

Sessions == {1, 2}
MainSessions == {1}

(***************************************************************************)
(* Text helpers.                                                           *)
(***************************************************************************)
DigitChars == <<"0", "1", "2", "3", "4", "5", "6", "7", "8", "9">>

RECURSIVE Str(_)
\* str(n) of a non-negative int
Str(n) == IF n < 10 THEN <<DigitChars[n + 1]>>
          ELSE Str(n \div 10) \o <<DigitChars[(n % 10) + 1]>>

\* f"{n:0wd}"
ZeroPad(n, w) ==
    LET s == Str(n)
    IN  IF Len(s) >= w THEN s ELSE [i \in 1..(w - Len(s)) |-> "0"] \o s

Range(seq) == {seq[i] : i \in 1..Len(seq)}

\* date.isoformat()
isoformat(d) == ZeroPad(d.year, 4) \o <<"-">> \o ZeroPad(d.month, 2)
                \o <<"-">> \o ZeroPad(d.day, 2)

get_current_month_key(d) == ZeroPad(d.year, 4) \o <<"-">> \o ZeroPad(d.month, 2)

(***************************************************************************)
(* The calendar: ordinal 0 is December of BaseYear.                        *)
(***************************************************************************)
DateOfOrd(n) == [year  |-> BaseYear + ((11 + n) \div 12),
                 month |-> ((11 + n) % 12) + 1,
                 day   |-> 15]

OrdOfDate(d) == (d.year - BaseYear) * 12 + d.month - 12

(***************************************************************************)
(* Category names.                                                         *)
(***************************************************************************)
Food == <<"F", "o", "o", "d">>
Transport == <<"T", "r", "a", "n", "s", "p", "o", "r", "t">>
RentHostel == <<"R", "e", "n", "t", " ", "/", " ", "H", "o", "s", "t", "e", "l">>
Groceries == <<"G", "r", "o", "c", "e", "r", "i", "e", "s">>
Entertainment == <<"E", "n", "t", "e", "r", "t", "a", "i", "n", "m", "e", "n", "t">>
Academic == <<"A", "c", "a", "d", "e", "m", "i", "c">>
Health == <<"H", "e", "a", "l", "t", "h">>
Savings == <<"S", "a", "v", "i", "n", "g", "s">>
Miscellaneous == <<"M", "i", "s", "c", "e", "l", "l", "a", "n", "e", "o", "u", "s">>

StarterCategories == <<Food, Transport, RentHostel, Groceries, Entertainment,
                       Academic, Health, Savings, Miscellaneous>>

(***************************************************************************)
(* The ledger document and the content of finance_data.json.               *)
(***************************************************************************)
Fields == {"current_month", "monthly_allowance", "categories",
           "transactions", "archives", "savings_goals"}

EmptyMap == [k \in {} |-> 0]        \* {} as a dict

NoData == [none |-> TRUE]           \* no document is held

\* first-run document, returned when the file does not exist
FirstRunDoc(key) ==
    [current_month |-> key, monthly_allowance |-> 0,
     categories |-> StarterCategories, transactions |-> <<>>,
     archives |-> EmptyMap, savings_goals |-> <<>>]

\* document returned when the file cannot be read or parsed
FallbackDoc(key) ==
    [current_month |-> key, monthly_allowance |-> 0,
     categories |-> <<>>, transactions |-> <<>>,
     archives |-> EmptyMap, savings_goals |-> <<>>]

\* faulty variant: backfills with the first-run values (starter categories)
SetDefaults_Starter(d, key) ==
    [f \in (DOMAIN d) \cup Fields |->
        IF f \in DOMAIN d THEN d[f] ELSE FirstRunDoc(key)[f]]

\* the six data.setdefault(...) calls
SetDefaults(d, key) ==
    [f \in (DOMAIN d) \cup Fields |->
        IF f \in DOMAIN d THEN d[f] ELSE FallbackDoc(key)[f]]

AbsentFile == [kind |-> "absent"]
\* a strict prefix of a serialized document; no bytes right after open(.., "w")
TruncatedFile == [kind |-> "truncated"]
ObjectFile(d) == [kind |-> "object", doc |-> d]

\* os.path.exists(DATA_FILE)
path_exists(f) == f.kind # "absent"

\* open(DATA_FILE, "r") followed by json.load(f): the value or the exception
json_load(f) ==
    CASE f.kind = "unreadable" -> [exc |-> "OSError"]
      [] f.kind \in {"empty", "truncated", "garbage"} -> [exc |-> "JSONDecodeError"]
      [] f.kind = "badutf8" -> [exc |-> "UnicodeDecodeError"]
      [] f.kind = "nonobject" -> [exc |-> "none", isdict |-> FALSE]
      [] f.kind = "object" -> [exc |-> "none", isdict |-> TRUE, value |-> f.doc]

\* load_data(): the returned dict, or the exception that leaves the function
load_data_result(f, key) ==
    IF ~path_exists(f) THEN [raised |-> "none", data |-> FirstRunDoc(key)]
    ELSE LET r == json_load(f)
         IN  IF r.exc \in {"JSONDecodeError", "OSError"}
                THEN [raised |-> "none", data |-> FallbackDoc(key)]
             ELSE IF r.exc # "none" THEN [raised |-> r.exc, data |-> NoData]
             ELSE IF ~r.isdict THEN [raised |-> "AttributeError", data |-> NoData]
             ELSE [raised |-> "none", data |-> SetDefaults(r.value, key)]

(***************************************************************************)
(* rollover_month_if_needed: the document after lines 111-123.             *)
(***************************************************************************)
\* faulty variant: archives every closed month, used or not
ShouldArchive_Always(d) == TRUE

\* "if data.get('transactions') or data.get('monthly_allowance', 0) != 0"
ShouldArchive(d) == Len(d.transactions) > 0 \/ d.monthly_allowance # 0

\* data["archives"][previous_month_key] = {...}
ArchiveMonth(d) ==
    [k \in (DOMAIN d.archives) \cup {d.current_month} |->
        IF k = d.current_month
           THEN [monthly_allowance |-> d.monthly_allowance,
                 transactions |-> d.transactions]
           ELSE d.archives[k]]

\* faulty variant: rolls over only when the stored month is before today's
rollover_result_PastOnly(d, today_month) ==
    IF Len(d.current_month) = Len(today_month)
       /\ \E i \in 1..Len(today_month) :
            /\ \A j \in 1..(i - 1) : d.current_month[j] = today_month[j]
            /\ \E a, b \in 1..10 : /\ DigitChars[a] = d.current_month[i]
                                   /\ DigitChars[b] = today_month[i]
                                   /\ a < b
       THEN [d EXCEPT !.archives = IF ShouldArchive(d) THEN ArchiveMonth(d)
                                   ELSE d.archives,
                      !.current_month = today_month,
                      !.transactions = <<>>]
       ELSE d

\* faulty variant: starts the new month with a zero allowance
rollover_result_ResetAllowance(d, today_month) ==
    IF d.current_month # today_month
       THEN [d EXCEPT !.archives = IF ShouldArchive(d) THEN ArchiveMonth(d)
                                   ELSE d.archives,
                      !.current_month = today_month,
                      !.monthly_allowance = 0,
                      !.transactions = <<>>]
       ELSE d

rollover_result(d, today_month) ==
    IF d.current_month # today_month
       THEN [d EXCEPT !.archives = IF ShouldArchive(d) THEN ArchiveMonth(d)
                                   ELSE d.archives,
                      !.current_month = today_month,
                      !.transactions = <<>>]
       ELSE d

\* faulty variant: returns without saving
rollover_saves_Never(d, today_month) == FALSE

\* faulty variant: saves on every call
rollover_saves_Always(d, today_month) == TRUE

\* save_data(data) is called inside "if stored_month != today_month"
rollover_saves(d, today_month) == d.current_month # today_month

(***************************************************************************)
(* Handlers of render_dashboard.  Each yields the document after the       *)
(* handler and whether the handler calls save_data.                        *)
(***************************************************************************)
PaymentModes == <<"Cash", "Card", "UPI / Wallet", "Bank Transfer", "Other">>
Kinds == <<"Expenditure", "Income">>

Whitespace == {" ", "\t", "\n"}

RECURSIVE lstrip(_)
lstrip(s) == IF s # <<>> /\ Head(s) \in Whitespace THEN lstrip(Tail(s)) ELSE s

RECURSIVE rstrip(_)
rstrip(s) == IF s # <<>> /\ s[Len(s)] \in Whitespace
                THEN rstrip(SubSeq(s, 1, Len(s) - 1)) ELSE s

\* str.strip()
strip(s) == rstrip(lstrip(s))

\* "Save Allowance"
SaveAllowance(d, new_allowance) ==
    [saves |-> TRUE, data |-> [d EXCEPT !.monthly_allowance = new_allowance]]

\* faulty variant: takes an amount of zero
AddTransaction_AnyAmount(d, tx_date, income_or_exp, payment_mode, category, amount) ==
    IF category = <<"None">> THEN [saves |-> FALSE, data |-> d]
    ELSE [saves |-> TRUE,
          data |-> [d EXCEPT !.transactions = Append(@,
                      [date |-> isoformat(tx_date),
                       category |-> category,
                       income_or_expenditure |-> income_or_exp,
                       payment_mode |-> payment_mode,
                       amount |-> amount])]]

\* "Add Transaction"; category is "None" when there is no category to pick
AddTransaction(d, tx_date, income_or_exp, payment_mode, category, amount) ==
    IF category = <<"None">> THEN [saves |-> FALSE, data |-> d]
    ELSE IF amount <= 0 THEN [saves |-> FALSE, data |-> d]
    ELSE [saves |-> TRUE,
          data |-> [d EXCEPT !.transactions = Append(@,
                      [date |-> isoformat(tx_date),
                       category |-> category,
                       income_or_expenditure |-> income_or_exp,
                       payment_mode |-> payment_mode,
                       amount |-> amount])]]

\* faulty variant: appends without looking for the name in the list
AddCategory_NoLookup(d, new_cat) ==
    LET cleaned == strip(new_cat)
    IN  IF cleaned = <<>> THEN [saves |-> FALSE, data |-> d]
        ELSE [saves |-> TRUE,
              data |-> [d EXCEPT !.categories = Append(@, cleaned)]]

\* "Add Category"
AddCategory(d, new_cat) ==
    LET cleaned == strip(new_cat)
    IN  IF cleaned = <<>> THEN [saves |-> FALSE, data |-> d]
        ELSE IF cleaned \in Range(d.categories) THEN [saves |-> FALSE, data |-> d]
        ELSE [saves |-> TRUE,
              data |-> [d EXCEPT !.categories = Append(@, cleaned)]]

\* faulty variant: also drops the transactions of the removed categories
DeleteSelectedCategories_Cascade(d, cats_to_delete) ==
    [saves |-> TRUE,
     data |-> [d EXCEPT !.categories =
                 SelectSeq(@, LAMBDA c : c \notin cats_to_delete),
                        !.transactions =
                 SelectSeq(@, LAMBDA tx : tx.category \notin cats_to_delete)]]

\* "Delete Selected Categories"
DeleteSelectedCategories(d, cats_to_delete) ==
    [saves |-> TRUE,
     data |-> [d EXCEPT !.categories =
                 SelectSeq(@, LAMBDA c : c \notin cats_to_delete)]]

\* amount in hundredths, as f"{amount:.2f}" rounds it (no ties in the inputs)
Round2(amount) == (amount + 5) \div 10

KindText(k) == IF k = "Income" THEN <<"I", "n", "c", "o", "m", "e">>
               ELSE <<"E", "x", "p", "e", "n", "d", "i", "t", "u", "r", "e">>

\* the label of a row in the "Select transactions to delete" box
TransactionLabel(tx) ==
    LET h == Round2(tx.amount)
        bar == <<" ", "|", " ">>
    IN  tx.date \o bar \o tx.category \o bar
        \o KindText(tx.income_or_expenditure) \o bar
        \o Str(h \div 100) \o <<".">> \o ZeroPad(h % 100, 2)

\* The amounts are Python floats (IEEE 754 binary64, 53 significant bits);
\* the model holds the decimal that was entered, in thousandths, and derives
\* from it the float that is stored.  For n thousandths, 0.008 <= n/1000 <
\* 2^21, float_exponent is k with 2^k <= n/1000 < 2^(k+1): the floats of that
\* range are the multiples of 2^(k-52).
RECURSIVE Pow2(_)
Pow2(e) == IF e = 0 THEN 1 ELSE 2 * Pow2(e - 1)

RECURSIVE Pow2Mod125(_)
Pow2Mod125(e) == IF e = 0 THEN 1 ELSE (2 * Pow2Mod125(e - 1)) % 125

float_exponent(n) ==
    CHOOSE k \in -7..20 :
        IF k >= 0 THEN Pow2(k) * 1000 <= n /\ n - Pow2(k) * 1000 < Pow2(k) * 1000
        ELSE 1000 <= n * Pow2(-k) /\ n * Pow2(-k) < 2000

\* float(n/1000) - n/1000 in units of 2^(k-52)/125: n/1000 is
\* (n * 2^(49-k)) / 125 multiples of 2^(k-52) and is rounded to the nearest
\* whole multiple (125 is odd: there are no ties)
float_error(n) ==
    LET r == ((n % 125) * Pow2Mod125(49 - float_exponent(n))) % 125
    IN  IF r <= 62 THEN -r ELSE 125 - r

\* abs(a - b) < 0.01 on the stored floats.  Decimals less than 0.01 apart
\* give floats less than 0.01 apart, decimals more than 0.01 apart do not.
\* Decimals exactly 0.01 apart, lo < hi, lo >= 0.01: the float subtraction
\* is exact (hi <= 2 * lo), so the floats are 0.01 + err(hi) - err(lo)
\* apart, and the literal 0.01 is the float 0.01 + err(0.01).  In units of
\* 2^(-59)/125 the comparison is
\*   (err(hi) * 2^(khi-klo) - err(lo)) * 2^(klo+7) < err(0.01),
\* and err(0.01) is less than 2^6 of them.
AmountClose(a, b) ==
    LET lo == IF a <= b THEN a ELSE b
        hi == IF a <= b THEN b ELSE a
        klo == float_exponent(lo)
        s == float_error(hi) * Pow2(float_exponent(hi) - klo) - float_error(lo)
    IN  IF hi - lo # 10 THEN hi - lo < 10
        ELSE IF klo >= 0 THEN s < 0 \/ (s = 0 /\ 0 < float_error(10))
        ELSE s * Pow2(klo + 7) < float_error(10)

transactions_match(tx1, tx2) ==
    /\ tx1.date = tx2.date
    /\ tx1.category = tx2.category
    /\ tx1.income_or_expenditure = tx2.income_or_expenditure
    /\ tx1.payment_mode = tx2.payment_mode
    /\ AmountClose(tx1.amount, tx2.amount)

\* faulty variant: removes the rows whose label was selected and no other
DeleteSelectedTransactions_ByLabel(d, transactions_to_delete) ==
    LET txs == d.transactions
        transactions_list ==
            SelectSeq(txs, LAMBDA tx : TransactionLabel(tx) \notin transactions_to_delete)
    IN  [saves |-> TRUE,
         data |-> [d EXCEPT !.transactions = transactions_list],
         deleted_count |-> Len(txs) - Len(transactions_list)]

\* "Delete Selected Transactions"
DeleteSelectedTransactions(d, transactions_to_delete) ==
    LET txs == d.transactions
        selected_indices ==
            {i \in 1..Len(txs) : TransactionLabel(txs[i]) \in transactions_to_delete}
        selected_transactions == {txs[i] : i \in selected_indices}
        transactions_list ==
            SelectSeq(txs, LAMBDA tx :
                ~ \E selected_tx \in selected_transactions :
                      transactions_match(tx, selected_tx))
    IN  [saves |-> TRUE,
         data |-> [d EXCEPT !.transactions = transactions_list],
         deleted_count |-> Len(txs) - Len(transactions_list)]

(***************************************************************************)
(* Handlers of render_savings.                                             *)
(***************************************************************************)
\* "Create Goal"; target_date is "None" when no date was picked
CreateGoal(d, goal_name, target_amount, target_date, timestamp, today_date) ==
    IF strip(goal_name) = <<>> THEN [saves |-> FALSE, data |-> d]
    ELSE IF target_amount <= 0 THEN [saves |-> FALSE, data |-> d]
    ELSE IF target_date = <<"None">> THEN [saves |-> FALSE, data |-> d]
    ELSE [saves |-> TRUE,
          data |-> [d EXCEPT !.savings_goals = Append(@,
                      [id |-> Str(Len(d.savings_goals) + 1) \o <<"-">>
                              \o Str(timestamp),
                       name |-> strip(goal_name),
                       target_amount |-> target_amount,
                       target_date |-> target_date,
                       created_date |-> isoformat(today_date)])]]

\* "Delete Goal" on the card of the goal at position idx
DeleteGoal(d, idx) ==
    LET goal_id == d.savings_goals[idx].id
    IN  [saves |-> TRUE,
         data |-> [d EXCEPT !.savings_goals =
                     SelectSeq(@, LAMBDA g : g.id # goal_id)]]

(***************************************************************************)
(* State.                                                                  *)
(*   today  date.today()                                                   *)
(*   now    int(datetime.now().timestamp())                                *)
(*   file   content of finance_data.json                                   *)
(*   pc     position of each session's script run (main)                   *)
(*   data   the dict each run holds                                        *)
(*   last   per session, the call made last: its name, the dict and the    *)
(*          file before it, the month key it read and how it ended         *)
(*   rolled a rollover call has returned and the calendar month has not    *)
(*          changed since                                                  *)
(*   edits  number of handler calls that reached save_data                 *)
(***************************************************************************)
\* no call made yet in this run
NoLast ==
    [op |-> "none", outcome |-> "none", pre |-> NoData, prefile |-> AbsentFile,
     key |-> <<>>, saved |-> FALSE, wasRolled |-> FALSE, exc |-> "none"]

Call(op, outcome, pre, prefile, key, wasRolled, exc) ==
    [op |-> op, outcome |-> outcome, pre |-> pre, prefile |-> prefile,
     key |-> key, saved |-> FALSE, wasRolled |-> wasRolled, exc |-> exc]

TodayKey == get_current_month_key(today)

InitCommon ==
    /\ now = BaseTs
    /\ pc = [s \in Sessions |-> IF s \in MainSessions THEN "idle" ELSE "off"]
    /\ data = [s \in Sessions |-> NoData]
    /\ rolled = FALSE
    /\ edits = 0

\* a transaction as "Add Transaction" stores it
SampleTx ==
    [date |-> isoformat(DateOfOrd(-1)), category |-> Food,
     income_or_expenditure |-> "Expenditure", payment_mode |-> "Cash",
     amount |-> 1200000]

\* the document of a user who set an allowance and created a goal two months
\* before the first month of the model, and logged an expense the month after
UsedLedger ==
    [current_month |-> get_current_month_key(DateOfOrd(-1)),
     monthly_allowance |-> 500000,
     categories |-> StarterCategories,
     transactions |-> <<SampleTx>>,
     archives |-> [k \in {get_current_month_key(DateOfOrd(-2))} |->
                     [monthly_allowance |-> 500000, transactions |-> <<>>]],
     savings_goals |-> <<[id |-> <<"1", "-">> \o Str(BaseTs),
                          name |-> <<"T", "r", "i", "p">>,
                          target_amount |-> 1000000,
                          target_date |-> isoformat(DateOfOrd(-1)),
                          created_date |-> isoformat(DateOfOrd(-2))]>>]

\* that document after the app was opened in the first month of the model
\* and an income was logged
OpenLedger ==
    AddTransaction(rollover_result(UsedLedger, get_current_month_key(DateOfOrd(0))),
                   DateOfOrd(0), "Income", "Cash", Food, 1200000).data

\* a fresh installation (no finance_data.json yet), a ledger last opened in
\* the month before, or a ledger in use this month
Init ==
    /\ today = DateOfOrd(0)
    /\ file \in {AbsentFile, ObjectFile(UsedLedger), ObjectFile(OpenLedger)}
    /\ last = [s \in Sessions |-> NoLast]
    /\ InitCommon

(***************************************************************************)
(* The calendar month changes, forwards or (clock skew) backwards.         *)
(***************************************************************************)
\* A run reads the calendar in load_data and in rollover_month_if_needed only,
\* so a change of month later in a run is the same change made after the run.
ClockIsRead == \A s \in Sessions : pc[s] \in {"off", "idle", "loaded"}

ClockAdvance ==
    /\ ClockIsRead
    /\ OrdOfDate(today) < MonthSpan
    /\ today' = DateOfOrd(OrdOfDate(today) + 1)
    /\ rolled' = FALSE
    /\ UNCHANGED <<now, file, pc, data, last, edits>>

ClockBack ==
    /\ ClockIsRead
    /\ OrdOfDate(today) > 0
    /\ today' = DateOfOrd(OrdOfDate(today) - 1)
    /\ rolled' = FALSE
    /\ UNCHANGED <<now, file, pc, data, last, edits>>

(***************************************************************************)
(* main(): data = load_data()                                              *)
(***************************************************************************)
load_data(s) ==
    /\ pc[s] = "idle"
    /\ LET r == load_data_result(file, TodayKey)
       IN  /\ data' = [data EXCEPT ![s] = r.data]
           /\ pc' = [pc EXCEPT ![s] = IF r.raised = "none" THEN "loaded"
                                      ELSE "raised"]
           /\ last' = [last EXCEPT ![s] =
                         Call("load",
                              IF r.raised = "none" THEN "returned" ELSE "raised",
                              NoData, file, TodayKey, rolled, r.raised)]
    /\ UNCHANGED <<today, now, file, rolled, edits>>

(***************************************************************************)
(* save_data(data), in two steps: open(DATA_FILE, "w") truncates the file, *)
(* json.dump writes it.  Either step can raise OSError, and the process    *)
(* can die between them.                                                   *)
(***************************************************************************)
\* the caller has changed its dict to d2 and calls save_data
BeginSave(s, op, d2) ==
    /\ data' = [data EXCEPT ![s] = d2]
    /\ \/ /\ file' = TruncatedFile
          /\ pc' = [pc EXCEPT ![s] = "saving"]
          /\ last' = [last EXCEPT ![s] =
                        Call(op, "saving", data[s], file, TodayKey, rolled, "none")]
       \/ /\ file' = file
          /\ pc' = [pc EXCEPT ![s] = "failed"]
          /\ last' = [last EXCEPT ![s] =
                        Call(op, "failed", data[s], file, TodayKey, rolled, "OSError")]

\* the call returns without calling save_data
NoSave(s, op, outcome, nextpc) ==
    /\ pc' = [pc EXCEPT ![s] = nextpc]
    /\ last' = [last EXCEPT ![s] =
                  Call(op, outcome, data[s], file, TodayKey, rolled, "none")]
    /\ UNCHANGED <<data, file>>

\* json.dump(data, f, ...) completes and the file is closed
json_dump(s) ==
    /\ pc[s] = "saving"
    /\ file' = ObjectFile(data[s])
    /\ pc' = [pc EXCEPT ![s] = IF last[s].op = "rollover" THEN "ready" ELSE "done"]
    /\ last' = [last EXCEPT ![s].outcome = "returned", ![s].saved = TRUE]
    /\ rolled' = IF last[s].op = "rollover" THEN TRUE ELSE rolled
    /\ UNCHANGED <<today, now, data, edits>>

\* json.dump raises OSError (disk full, device error)
WriteFails(s) ==
    /\ pc[s] = "saving"
    /\ pc' = [pc EXCEPT ![s] = "failed"]
    /\ last' = [last EXCEPT ![s].outcome = "failed", ![s].exc = "OSError"]
    /\ UNCHANGED <<today, now, file, data, rolled, edits>>

\* the process is killed while the file is open for writing
Crash(s) ==
    /\ pc[s] = "saving"
    /\ pc' = [pc EXCEPT ![s] = "idle"]
    /\ data' = [data EXCEPT ![s] = NoData]
    /\ last' = [last EXCEPT ![s] = NoLast]
    /\ UNCHANGED <<today, now, file, rolled, edits>>

(***************************************************************************)
(* main(): data = rollover_month_if_needed(data)                           *)
(***************************************************************************)
rollover_month_if_needed(s) ==
    /\ pc[s] = "loaded"
    /\ IF rollover_saves(data[s], TodayKey)
          THEN /\ BeginSave(s, "rollover", rollover_result(data[s], TodayKey))
               /\ UNCHANGED rolled
          ELSE /\ pc' = [pc EXCEPT ![s] = "ready"]
               /\ data' = [data EXCEPT ![s] = rollover_result(data[s], TodayKey)]
               /\ last' = [last EXCEPT ![s] =
                             Call("rollover", "returned", data[s], file, TodayKey,
                                  rolled, "none")]
               /\ rolled' = TRUE
               /\ UNCHANGED file
    /\ UNCHANGED <<today, now, edits>>

(***************************************************************************)
(* The page is rendered; at most one button is pressed in a run.           *)
(***************************************************************************)
\* the handler's result r: save_data is called, or the input was turned down
Handle(s, op, r) ==
    IF r.saves
       THEN /\ edits < MaxEdits
            /\ BeginSave(s, op, r.data)
            /\ edits' = edits + 1
       ELSE /\ NoSave(s, op, "rejected", "done")
            /\ UNCHANGED edits

AllowanceInputs == {0, 500000}
AmountInputs == {0, 1200000}
TxDateInputs == {today}
PaymentModeInputs == {PaymentModes[1]}
CategoryNameInputs == {<<" ">>, Food, <<" ", "B", "o", "o", "k", "s", " ">>}
GoalNameInputs == {<<" ">>, <<"T", "r", "i", "p">>}
TargetAmountInputs == {0, 1000000}
TargetDateInputs == {<<"None">>, isoformat(today)}   \* min_value=date.today()

\* the first option of a select or multiselect box
FirstOption(options) == {options[1]}

ClickSaveAllowance(s) ==
    /\ pc[s] = "ready"
    /\ \E new_allowance \in AllowanceInputs :
         Handle(s, "SaveAllowance", SaveAllowance(data[s], new_allowance))
    /\ UNCHANGED <<today, now, rolled>>

ClickAddTransaction(s) ==
    /\ pc[s] = "ready"
    /\ \E tx_date \in TxDateInputs, income_or_exp \in Range(Kinds),
          payment_mode \in PaymentModeInputs, amount \in AmountInputs :
         \E category \in IF data[s].categories = <<>> THEN {<<"None">>}
                         ELSE FirstOption(data[s].categories) :
            Handle(s, "AddTransaction",
                   AddTransaction(data[s], tx_date, income_or_exp, payment_mode,
                                  category, amount))
    /\ UNCHANGED <<today, now, rolled>>

ClickAddCategory(s) ==
    /\ pc[s] = "ready"
    /\ \E new_cat \in CategoryNameInputs :
         Handle(s, "AddCategory", AddCategory(data[s], new_cat))
    /\ UNCHANGED <<today, now, rolled>>

ClickDeleteSelectedCategories(s) ==
    /\ pc[s] = "ready"
    /\ data[s].categories # <<>>
    /\ \E cats_to_delete \in SUBSET FirstOption(data[s].categories) :
         Handle(s, "DeleteSelectedCategories",
                DeleteSelectedCategories(data[s], cats_to_delete))
    /\ UNCHANGED <<today, now, rolled>>

ClickDeleteSelectedTransactions(s) ==
    /\ pc[s] = "ready"
    /\ data[s].transactions # <<>>
    /\ \E transactions_to_delete \in
            SUBSET {TransactionLabel(tx) : tx \in FirstOption(data[s].transactions)} :
         /\ transactions_to_delete # {}
         /\ Handle(s, "DeleteSelectedTransactions",
                   DeleteSelectedTransactions(data[s], transactions_to_delete))
    /\ UNCHANGED <<today, now, rolled>>

ClickCreateGoal(s) ==
    /\ pc[s] = "ready"
    /\ \E goal_name \in GoalNameInputs, target_amount \in TargetAmountInputs,
          target_date \in TargetDateInputs, t \in {now, now + 1} :
         LET r == CreateGoal(data[s], goal_name, target_amount, target_date,
                             t, today)
         IN  /\ now' = IF r.saves THEN t ELSE now   \* the clock as last read
             /\ Handle(s, "CreateGoal", r)
    /\ UNCHANGED <<today, rolled>>

ClickDeleteGoal(s) ==
    /\ pc[s] = "ready"
    /\ \E idx \in 1..Len(data[s].savings_goals) :
         Handle(s, "DeleteGoal", DeleteGoal(data[s], idx))
    /\ UNCHANGED <<today, now, rolled>>

\* the run ends: normally, or with the exception shown on the page
EndRun(s) ==
    /\ pc[s] \in {"ready", "done", "failed", "raised"}
    /\ pc' = [pc EXCEPT ![s] = "idle"]
    /\ data' = [data EXCEPT ![s] = NoData]
    /\ last' = [last EXCEPT ![s] = NoLast]
    /\ UNCHANGED <<today, now, file, rolled, edits>>

SessionStep(s) ==
    \/ load_data(s)
    \/ rollover_month_if_needed(s)
    \/ json_dump(s)
    \/ WriteFails(s)
    \/ Crash(s)
    \/ ClickSaveAllowance(s)
    \/ ClickAddTransaction(s)
    \/ ClickAddCategory(s)
    \/ ClickDeleteSelectedCategories(s)
    \/ ClickDeleteSelectedTransactions(s)
    \/ ClickCreateGoal(s)
    \/ ClickDeleteGoal(s)
    \/ EndRun(s)

Next ==
    \/ ClockAdvance
    \/ ClockBack
    \/ \E s \in MainSessions : SessionStep(s)

Spec == Init /\ [][Next]_vars

(***************************************************************************)
(* load_data on every kind of file content.                                *)
(***************************************************************************)
SampleDoc ==
    [current_month |-> get_current_month_key(DateOfOrd(0)),
     monthly_allowance |-> 500000,
     categories |-> <<Food, Transport>>,
     transactions |-> <<SampleTx>>,
     archives |-> [k \in {get_current_month_key(DateOfOrd(-1))} |->
                     [monthly_allowance |-> 400000, transactions |-> <<SampleTx>>]],
     savings_goals |-> <<[id |-> <<"1", "-", "7">>, name |-> <<"T", "r", "i", "p">>,
                          target_amount |-> 1000000,
                          target_date |-> isoformat(DateOfOrd(1)),
                          created_date |-> isoformat(DateOfOrd(0))]>>,
     theme |-> "dark"]

\* JSON objects holding any part of the sample document
PartialDocs == {[f \in present |-> SampleDoc[f]] : present \in SUBSET DOMAIN SampleDoc}

LoadFiles ==
    {AbsentFile, TruncatedFile, [kind |-> "empty"], [kind |-> "garbage"],
     [kind |-> "unreadable"], [kind |-> "badutf8"], [kind |-> "nonobject"]}
    \cup {ObjectFile(d) : d \in PartialDocs}

InitLoad ==
    /\ today \in {DateOfOrd(n) : n \in 0..MonthSpan}
    /\ file \in LoadFiles
    /\ last = [s \in Sessions |-> NoLast]
    /\ InitCommon

NextLoad == \E s \in MainSessions : load_data(s) \/ EndRun(s)

SpecLoad == InitLoad /\ [][NextLoad]_vars

(***************************************************************************)
(* finance_data.json as text.  A Python value is a tagged record; a dict   *)
(* keeps its items in insertion order.  json_dumps is json.dump(data, f,   *)
(* indent=2, ensure_ascii=False), json_loads is json.load(f).  A float is  *)
(* held in thousandths, so the text of a float has at most three decimals. *)
(***************************************************************************)
PyNone == [py |-> "None"]
PyBool(b) == [py |-> "bool", b |-> b]
PyInt(n) == [py |-> "int", n |-> n]
PyFloat(milli) == [py |-> "float", milli |-> milli]
PyStr(s) == [py |-> "str", s |-> s]
PyList(items) == [py |-> "list", items |-> items]
PyDict(pairs) == [py |-> "dict", pairs |-> pairs]
Pair(k, v) == [k |-> k, v |-> v]

\* k in d
HasKey(d, k) == \E i \in 1..Len(d.pairs) : d.pairs[i].k = k

\* d[k]
GetKey(d, k) == d.pairs[CHOOSE i \in 1..Len(d.pairs) : d.pairs[i].k = k].v

\* d[k] = v
SetKey(d, k, v) ==
    IF HasKey(d, k)
       THEN PyDict([i \in 1..Len(d.pairs) |->
                       IF d.pairs[i].k = k THEN Pair(k, v) ELSE d.pairs[i]])
       ELSE PyDict(Append(d.pairs, Pair(k, v)))

\* d.setdefault(k, v)
setdefault(d, k, v) == IF HasKey(d, k) THEN d ELSE SetKey(d, k, v)

\* str(n) of an int
IntText(n) == IF n < 0 THEN <<"-">> \o Str(-n) ELSE Str(n)

RECURSIVE StripZeros(_)
StripZeros(s) == IF Len(s) > 1 /\ s[Len(s)] = "0"
                    THEN StripZeros(SubSeq(s, 1, Len(s) - 1)) ELSE s

\* float.__repr__ of a number of thousandths
float_repr(milli) ==
    LET a == IF milli < 0 THEN -milli ELSE milli
    IN  (IF milli < 0 THEN <<"-">> ELSE <<>>) \o Str(a \div 1000) \o <<".">>
        \o StripZeros(ZeroPad(a % 1000, 3))

EscapeChar(c) ==
    CASE c = "\"" -> <<"\\", "\"">>
      [] c = "\\" -> <<"\\", "\\">>
      [] c = "\n" -> <<"\\", "n">>
      [] c = "\t" -> <<"\\", "t">>
      [] OTHER -> <<c>>

RECURSIVE py_encode_basestring(_)
\* the body of a JSON string; non-ASCII characters are written as they are
py_encode_basestring(s) ==
    IF s = <<>> THEN <<>> ELSE EscapeChar(Head(s)) \o py_encode_basestring(Tail(s))

Quoted(s) == <<"\"">> \o py_encode_basestring(s) \o <<"\"">>

\* newline and indent=2 at a nesting level
Newline(level) == <<"\n">> \o [i \in 1..(2 * level) |-> " "]

RECURSIVE json_dumps(_, _)
RECURSIVE dump_items(_, _, _)
RECURSIVE dump_pairs(_, _, _)
json_dumps(v, level) ==
    CASE v.py = "None" -> <<"n", "u", "l", "l">>
      [] v.py = "bool" -> IF v.b THEN <<"t", "r", "u", "e">> ELSE <<"f", "a", "l", "s", "e">>
      [] v.py = "int" -> IntText(v.n)
      [] v.py = "float" -> float_repr(v.milli)
      [] v.py = "str" -> Quoted(v.s)
      [] v.py = "list" ->
            IF v.items = <<>> THEN <<"[", "]">>
            ELSE <<"[">> \o dump_items(v.items, 1, level + 1)
                 \o Newline(level) \o <<"]">>
      [] v.py = "dict" ->
            IF v.pairs = <<>> THEN <<"{", "}">>
            ELSE <<"{">> \o dump_pairs(v.pairs, 1, level + 1)
                 \o Newline(level) \o <<"}">>

dump_items(items, i, level) ==
    Newline(level) \o json_dumps(items[i], level)
    \o (IF i = Len(items) THEN <<>> ELSE <<",">> \o dump_items(items, i + 1, level))

dump_pairs(pairs, i, level) ==
    Newline(level) \o Quoted(pairs[i].k) \o <<":", " ">>
    \o json_dumps(pairs[i].v, level)
    \o (IF i = Len(pairs) THEN <<>> ELSE <<",">> \o dump_pairs(pairs, i + 1, level))

\* json.JSONDecodeError
ParseError == [ok |-> FALSE]
Parsed(v, i) == [ok |-> TRUE, v |-> v, i |-> i]

JsonWhitespace == {" ", "\t", "\n", "\r"}

RECURSIVE skip_ws(_, _)
skip_ws(t, i) == IF i <= Len(t) /\ t[i] \in JsonWhitespace THEN skip_ws(t, i + 1) ELSE i

StartsWith(t, i, lit) ==
    i + Len(lit) - 1 <= Len(t) /\ SubSeq(t, i, i + Len(lit) - 1) = lit

Unescape(c) ==
    CASE c = "n" -> <<"\n">>
      [] c = "t" -> <<"\t">>
      [] c \in {"\"", "\\", "/"} -> <<c>>
      [] OTHER -> <<>>

RECURSIVE scan_string(_, _, _)
\* the characters of a string up to its closing quote
scan_string(t, i, acc) ==
    IF i > Len(t) THEN ParseError
    ELSE IF t[i] = "\"" THEN Parsed(PyStr(acc), i + 1)
    ELSE IF t[i] \in {"\n", "\t", "\r"} THEN ParseError
    ELSE IF t[i] = "\\"
       THEN IF i + 1 > Len(t) \/ Unescape(t[i + 1]) = <<>> THEN ParseError
            ELSE scan_string(t, i + 2, acc \o Unescape(t[i + 1]))
    ELSE scan_string(t, i + 1, Append(acc, t[i]))

NumberChars == Range(DigitChars) \cup {"-", "."}

RECURSIVE number_end(_, _)
number_end(t, i) == IF i <= Len(t) /\ t[i] \in NumberChars THEN number_end(t, i + 1) ELSE i

DigitValue(c) == CHOOSE n \in 0..9 : DigitChars[n + 1] = c

RECURSIVE DigitsValue(_)
\* int(s) of a string of digits
DigitsValue(s) ==
    IF s = <<>> THEN 0
    ELSE DigitsValue(SubSeq(s, 1, Len(s) - 1)) * 10 + DigitValue(s[Len(s)])

IsDigits(s) == s # <<>> /\ \A k \in 1..Len(s) : s[k] \in Range(DigitChars)

\* a number: an int when it has no fraction, a float otherwise
scan_number(t, i) ==
    LET j == number_end(t, i)
        neg == t[i] = "-"
        sign == IF neg THEN -1 ELSE 1
        body == SubSeq(t, IF neg THEN i + 1 ELSE i, j - 1)
        dots == {k \in 1..Len(body) : body[k] = "."}
    IN  IF dots = {}
           THEN IF IsDigits(body) THEN Parsed(PyInt(sign * DigitsValue(body)), j)
                ELSE ParseError
        ELSE LET k == CHOOSE d \in dots : TRUE
                 int_part == SubSeq(body, 1, k - 1)
                 frac == SubSeq(body, k + 1, Len(body))
             IN  IF Cardinality(dots) = 1 /\ IsDigits(int_part) /\ IsDigits(frac)
                    /\ Len(frac) <= 3
                    THEN Parsed(PyFloat(sign * (DigitsValue(int_part) * 1000
                           + DigitsValue(frac \o [z \in 1..(3 - Len(frac)) |-> "0"]))), j)
                 ELSE ParseError

RECURSIVE parse_value(_, _)
RECURSIVE parse_elements(_, _, _)
RECURSIVE parse_members(_, _, _)
parse_value(t, i0) ==
    LET i == skip_ws(t, i0)
    IN  IF i > Len(t) THEN ParseError
        ELSE CASE t[i] = "{" ->
                    LET j == skip_ws(t, i + 1)
                    IN  IF j <= Len(t) /\ t[j] = "}" THEN Parsed(PyDict(<<>>), j + 1)
                        ELSE parse_members(t, j, PyDict(<<>>))
               [] t[i] = "[" ->
                    LET j == skip_ws(t, i + 1)
                    IN  IF j <= Len(t) /\ t[j] = "]" THEN Parsed(PyList(<<>>), j + 1)
                        ELSE parse_elements(t, j, <<>>)
               [] t[i] = "\"" -> scan_string(t, i + 1, <<>>)
               [] t[i] \in NumberChars \ {"."} -> scan_number(t, i)
               [] StartsWith(t, i, <<"t", "r", "u", "e">>) -> Parsed(PyBool(TRUE), i + 4)
               [] StartsWith(t, i, <<"f", "a", "l", "s", "e">>) -> Parsed(PyBool(FALSE), i + 5)
               [] StartsWith(t, i, <<"n", "u", "l", "l">>) -> Parsed(PyNone, i + 4)
               [] OTHER -> ParseError

\* the elements of an array after "[", up to and including "]"
parse_elements(t, i, acc) ==
    LET r == parse_value(t, i)
    IN  IF ~r.ok THEN ParseError
        ELSE LET j == skip_ws(t, r.i)
             IN  IF j > Len(t) THEN ParseError
                 ELSE IF t[j] = "," THEN parse_elements(t, j + 1, Append(acc, r.v))
                 ELSE IF t[j] = "]" THEN Parsed(PyList(Append(acc, r.v)), j + 1)
                 ELSE ParseError

\* the members of an object after "{", up to and including "}"; a key that
\* comes twice keeps its last value
parse_members(t, i0, acc) ==
    LET i == skip_ws(t, i0)
    IN  IF i > Len(t) \/ t[i] # "\"" THEN ParseError
        ELSE LET key == scan_string(t, i + 1, <<>>)
             IN  IF ~key.ok THEN ParseError
                 ELSE LET c == skip_ws(t, key.i)
                      IN  IF c > Len(t) \/ t[c] # ":" THEN ParseError
                          ELSE LET r == parse_value(t, c + 1)
                               IN  IF ~r.ok THEN ParseError
                                   ELSE LET j == skip_ws(t, r.i)
                                            d == SetKey(acc, key.v.s, r.v)
                                        IN  IF j > Len(t) THEN ParseError
                                            ELSE IF t[j] = "," THEN parse_members(t, j + 1, d)
                                            ELSE IF t[j] = "}" THEN Parsed(d, j + 1)
                                            ELSE ParseError

\* json.load: the whole text is one value
json_loads(t) ==
    LET r == parse_value(t, 1)
    IN  IF r.ok /\ skip_ws(t, r.i) > Len(t) THEN r ELSE ParseError

(***************************************************************************)
(* The document as the Python dict that load_data and the handlers build.  *)
(***************************************************************************)
FieldOrder == <<"current_month", "monthly_allowance", "categories",
                "transactions", "archives", "savings_goals">>

FieldText(f) ==
    CASE f = "current_month" -> <<"c", "u", "r", "r", "e", "n", "t", "_", "m", "o", "n", "t", "h">>
      [] f = "monthly_allowance" -> <<"m", "o", "n", "t", "h", "l", "y", "_", "a", "l", "l", "o", "w", "a", "n", "c", "e">>
      [] f = "categories" -> <<"c", "a", "t", "e", "g", "o", "r", "i", "e", "s">>
      [] f = "transactions" -> <<"t", "r", "a", "n", "s", "a", "c", "t", "i", "o", "n", "s">>
      [] f = "archives" -> <<"a", "r", "c", "h", "i", "v", "e", "s">>
      [] f = "savings_goals" -> <<"s", "a", "v", "i", "n", "g", "s", "_", "g", "o", "a", "l", "s">>

PaymentModeText(m) ==
    CASE m = "Cash" -> <<"C", "a", "s", "h">>
      [] m = "Card" -> <<"C", "a", "r", "d">>
      [] m = "UPI / Wallet" -> <<"U", "P", "I", " ", "/", " ", "W", "a", "l", "l", "e", "t">>
      [] m = "Bank Transfer" -> <<"B", "a", "n", "k", " ", "T", "r", "a", "n", "s", "f", "e", "r">>
      [] m = "Other" -> <<"O", "t", "h", "e", "r">>

\* new_tx = {"date": ..., "category": ..., ...}
TxToPy(tx) ==
    PyDict(<<Pair(<<"d", "a", "t", "e">>, PyStr(tx.date)),
             Pair(<<"c", "a", "t", "e", "g", "o", "r", "y">>, PyStr(tx.category)),
             Pair(<<"i", "n", "c", "o", "m", "e", "_", "o", "r", "_", "e", "x", "p", "e", "n", "d", "i", "t", "u", "r", "e">>, PyStr(KindText(tx.income_or_expenditure))),
             Pair(<<"p", "a", "y", "m", "e", "n", "t", "_", "m", "o", "d", "e">>, PyStr(PaymentModeText(tx.payment_mode))),
             Pair(<<"a", "m", "o", "u", "n", "t">>, PyFloat(tx.amount))>>)

\* new_goal = {"id": ..., "name": ..., ...}
GoalToPy(g) ==
    PyDict(<<Pair(<<"i", "d">>, PyStr(g.id)),
             Pair(<<"n", "a", "m", "e">>, PyStr(g.name)),
             Pair(<<"t", "a", "r", "g", "e", "t", "_", "a", "m", "o", "u", "n", "t">>, PyFloat(g.target_amount)),
             Pair(<<"t", "a", "r", "g", "e", "t", "_", "d", "a", "t", "e">>, PyStr(g.target_date)),
             Pair(<<"c", "r", "e", "a", "t", "e", "d", "_", "d", "a", "t", "e">>, PyStr(g.created_date))>>)

MapSeq(seq, Op(_)) == [i \in 1..Len(seq) |-> Op(seq[i])]

MonthKeyNumber(k) == DigitsValue(SelectSeq(k, LAMBDA c : c # "-"))

RECURSIVE SortedKeys(_)
\* the month keys in the order a forward-moving calendar archives them
SortedKeys(S) ==
    IF S = {} THEN <<>>
    ELSE LET m == CHOOSE k \in S : \A o \in S : MonthKeyNumber(k) <= MonthKeyNumber(o)
         IN  <<m>> \o SortedKeys(S \ {m})

ArchivesToPy(a) ==
    LET keys == SortedKeys(DOMAIN a)
    IN  PyDict([i \in 1..Len(keys) |->
                  Pair(keys[i],
                       PyDict(<<Pair(<<"m", "o", "n", "t", "h", "l", "y", "_", "a", "l", "l", "o", "w", "a", "n", "c", "e">>,
                                     PyFloat(a[keys[i]].monthly_allowance)),
                                Pair(<<"t", "r", "a", "n", "s", "a", "c", "t", "i", "o", "n", "s">>,
                                     PyList(MapSeq(a[keys[i]].transactions, TxToPy)))>>))])

FieldToPy(d, f) ==
    CASE f = "current_month" -> PyStr(d.current_month)
      [] f = "monthly_allowance" -> PyFloat(d.monthly_allowance)
      [] f = "categories" -> PyList(MapSeq(d.categories, PyStr))
      [] f = "transactions" -> PyList(MapSeq(d.transactions, TxToPy))
      [] f = "archives" -> ArchivesToPy(d.archives)
      [] f = "savings_goals" -> PyList(MapSeq(d.savings_goals, GoalToPy))

ToPy(d) == PyDict([i \in 1..Len(FieldOrder) |->
                     Pair(FieldText(FieldOrder[i]), FieldToPy(d, FieldOrder[i]))])

TextFile(t) == [kind |-> "text", text |-> t]

\* faulty variant: rebuilds the dict from the six known fields
setdefaults_text_KnownOnly(d, key) ==
    LET defaults == ToPy(FallbackDoc(key))
    IN  PyDict([i \in 1..Len(FieldOrder) |->
                  LET k == FieldText(FieldOrder[i])
                  IN  Pair(k, IF HasKey(d, k) THEN GetKey(d, k) ELSE GetKey(defaults, k))])

RECURSIVE setdefaults_from(_, _, _)
setdefaults_from(d, defaults, i) ==
    IF i > Len(defaults.pairs) THEN d
    ELSE setdefaults_from(setdefault(d, defaults.pairs[i].k, defaults.pairs[i].v),
                          defaults, i + 1)

\* the six data.setdefault(...) calls, in their order
setdefaults_text(d, key) == setdefaults_from(d, ToPy(FallbackDoc(key)), 1)

\* load_data() on the text of the file
load_data_text(f, key) ==
    IF ~path_exists(f) THEN [raised |-> "none", data |-> ToPy(FirstRunDoc(key))]
    ELSE LET r == json_loads(f.text)
         IN  IF ~r.ok THEN [raised |-> "none", data |-> ToPy(FallbackDoc(key))]
             ELSE IF r.v.py # "dict" THEN [raised |-> "AttributeError", data |-> NoData]
             ELSE [raised |-> "none", data |-> setdefaults_text(r.v, key)]

(***************************************************************************)
(* save_data, load_data, save_data on the text of the file.                *)
(***************************************************************************)
\* fields that the application does not know
ExtraFields ==
    {<<>>,
     <<Pair(<<"t", "h", "e", "m", "e">>, PyStr(<<"d", "a", "r", "k">>))>>,
     <<Pair(<<"n", "o", "t", "e", "s">>, PyDict(<<Pair(<<"t", "a", "g", "s">>,
                                     PyList(<<PyStr(<<"a", "\"", "b", "\\", "c", "\n">>),
                                              PyInt(7), PyFloat(-2500), PyBool(TRUE),
                                              PyNone>>)),
                                Pair(<<"v", "e", "r", "s", "i", "o", "n">>, PyInt(-3))>>)),
       Pair(<<"s", "c", "h", "e", "m", "a">>, PyInt(2))>>}

Reversed(seq) == [i \in 1..Len(seq) |-> seq[Len(seq) + 1 - i]]

\* well-formed documents: the ones the application writes, with the
\* allowance as it is, as a float with decimals or as an int, the fields in
\* the application's order or in another, and unknown fields or none
RoundTripDocs ==
    LET bases == {ToPy(FirstRunDoc(get_current_month_key(DateOfOrd(0)))),
                  ToPy(FallbackDoc(get_current_month_key(DateOfOrd(0)))),
                  ToPy(UsedLedger), ToPy(OpenLedger)}
        allowances == {PyFloat(0), PyFloat(1200500), PyFloat(1), PyInt(500)}
    IN  {PyDict((IF rev THEN Reversed(SetKey(b, <<"m", "o", "n", "t", "h", "l", "y", "_", "a", "l", "l", "o", "w", "a", "n", "c", "e">>, a).pairs)
                 ELSE SetKey(b, <<"m", "o", "n", "t", "h", "l", "y", "_", "a", "l", "l", "o", "w", "a", "n", "c", "e">>, a).pairs) \o e) :
            b \in bases, a \in allowances, rev \in BOOLEAN, e \in ExtraFields}

InitRoundTrip ==
    /\ today = DateOfOrd(0)
    /\ now = BaseTs
    /\ file = AbsentFile
    /\ pc = [s \in Sessions |-> IF s \in MainSessions THEN "ready" ELSE "off"]
    /\ data \in {[s \in Sessions |-> IF s \in MainSessions THEN d ELSE NoData] :
                    d \in RoundTripDocs}
    /\ last = [s \in Sessions |-> NoLast]
    /\ rolled = FALSE
    /\ edits = 0

\* save_data(data)
save_data_text(s) ==
    /\ pc[s] = "ready"
    /\ file' = TextFile(json_dumps(data[s], 0))
    /\ pc' = [pc EXCEPT ![s] = "done"]
    /\ last' = [last EXCEPT ![s] =
                  [Call("save", "returned", data[s], file, TodayKey, rolled, "none")
                      EXCEPT !.saved = TRUE]]
    /\ UNCHANGED <<today, now, data, rolled, edits>>

\* data = load_data()
load_text(s) ==
    /\ pc[s] = "idle"
    /\ LET r == load_data_text(file, TodayKey)
       IN  /\ data' = [data EXCEPT ![s] = r.data]
           /\ pc' = [pc EXCEPT ![s] = IF r.raised = "none" THEN "ready" ELSE "raised"]
           /\ last' = [last EXCEPT ![s] =
                         Call("load",
                              IF r.raised = "none" THEN "returned" ELSE "raised",
                              NoData, file, TodayKey, rolled, r.raised)]
    /\ UNCHANGED <<today, now, file, rolled, edits>>

NextRoundTrip ==
    \E s \in MainSessions : save_data_text(s) \/ load_text(s) \/ EndRun(s)

SpecRoundTrip == InitRoundTrip /\ [][NextRoundTrip]_vars

(***************************************************************************)
(* The dashboard handlers on ledgers with several transactions.  A handler *)
(* runs to its end in one step: the dict is changed and save_data, when    *)
(* the handler calls it, writes the file.                                  *)
(***************************************************************************)
MaxTx == 3             \* transactions in the open month

\* transactions as "Add Transaction" stores them: two alike to the
\* thousandth, one 0.004, one 0.006 and one 0.01 apart, one paid another way
TxPool ==
    LET t == [date |-> isoformat(DateOfOrd(0)), category |-> Food,
              income_or_expenditure |-> "Expenditure", payment_mode |-> "Cash",
              amount |-> 1200000]
    IN  {t, [t EXCEPT !.amount = 1200004], [t EXCEPT !.amount = 1200006],
         [t EXCEPT !.amount = 1200010], [t EXCEPT !.payment_mode = "Card"]}

SeqsUpTo(S, n) == UNION {[1..k -> S] : k \in 0..n}

LedgerDocs ==
    {[OpenLedger EXCEPT !.categories = cats, !.transactions = txs] :
        cats \in {<<>>, <<Food, Transport>>}, txs \in SeqsUpTo(TxPool, MaxTx)}

InitLedger ==
    /\ today = DateOfOrd(0)
    /\ file \in {ObjectFile(d) : d \in LedgerDocs}
    /\ last = [s \in Sessions |-> NoLast]
    /\ InitCommon

\* the handler ran with the inputs args and gave r
Complete(s, op, args, r) ==
    /\ data' = [data EXCEPT ![s] = r.data]
    /\ file' = IF r.saves THEN ObjectFile(r.data) ELSE file
    /\ pc' = [pc EXCEPT ![s] = "done"]
    /\ last' = [last EXCEPT ![s] =
                  [op |-> op, outcome |-> IF r.saves THEN "returned" ELSE "rejected",
                   pre |-> data[s], prefile |-> file, key |-> TodayKey,
                   saved |-> r.saves, wasRolled |-> rolled, exc |-> "none",
                   args |-> args, result |-> r]]
    /\ UNCHANGED <<today, now, rolled, edits>>

\* faulty variant: the handler works on the document read again from the
\* file when the button is pressed, as under a lock
SubmitAddTransaction_Reread(s) ==
    /\ pc[s] = "ready"
    /\ Len(file.doc.transactions) < MaxTx
    /\ \E tx_date \in TxDateInputs, income_or_exp \in Range(Kinds),
          payment_mode \in PaymentModeInputs, amount \in AmountInputs :
         \E category \in IF data[s].categories = <<>> THEN {<<"None">>}
                         ELSE Range(data[s].categories) :
            Complete(s, "AddTransaction",
                     [tx_date |-> tx_date, income_or_exp |-> income_or_exp,
                      payment_mode |-> payment_mode, category |-> category,
                      amount |-> amount],
                     AddTransaction(file.doc, tx_date, income_or_exp, payment_mode,
                                    category, amount))

SubmitAddTransaction(s) ==
    /\ pc[s] = "ready"
    /\ Len(data[s].transactions) < MaxTx
    /\ \E tx_date \in TxDateInputs, income_or_exp \in Range(Kinds),
          payment_mode \in PaymentModeInputs, amount \in AmountInputs :
         \E category \in IF data[s].categories = <<>> THEN {<<"None">>}
                         ELSE Range(data[s].categories) :
            Complete(s, "AddTransaction",
                     [tx_date |-> tx_date, income_or_exp |-> income_or_exp,
                      payment_mode |-> payment_mode, category |-> category,
                      amount |-> amount],
                     AddTransaction(data[s], tx_date, income_or_exp, payment_mode,
                                    category, amount))

SubmitDeleteCategories(s) ==
    /\ pc[s] = "ready"
    /\ data[s].categories # <<>>
    /\ \E cats_to_delete \in SUBSET Range(data[s].categories) :
         Complete(s, "DeleteSelectedCategories", cats_to_delete,
                  DeleteSelectedCategories(data[s], cats_to_delete))

SubmitDeleteTransactions(s) ==
    /\ pc[s] = "ready"
    /\ data[s].transactions # <<>>
    /\ \E transactions_to_delete \in
            SUBSET {TransactionLabel(tx) : tx \in Range(data[s].transactions)} :
         /\ transactions_to_delete # {}
         /\ Complete(s, "DeleteSelectedTransactions", transactions_to_delete,
                     DeleteSelectedTransactions(data[s], transactions_to_delete))

NextLedger ==
    \E s \in MainSessions :
        \/ load_data(s)
        \/ rollover_month_if_needed(s)
        \/ SubmitAddTransaction(s)
        \/ SubmitDeleteCategories(s)
        \/ SubmitDeleteTransactions(s)
        \/ EndRun(s)

SpecLedger == InitLedger /\ [][NextLedger]_vars

(***************************************************************************)
(* "Add Category" and "Delete Selected Categories", any number of times,   *)
(* on a fresh installation.                                                *)
(***************************************************************************)
\* names typed into "New Category Name"
NewCategoryInputs ==
    CategoryNameInputs
    \cup {<<>>, <<"B", "o", "o", "k", "s">>, <<"f", "o", "o", "d">>, <<"\t", "F", "o", "o", "d", "\n">>}

\* the names that get selected in "Select Categories to Remove"
RemovableNames == {Food, Miscellaneous, <<"B", "o", "o", "k", "s">>, <<"f", "o", "o", "d">>}

InitCategories ==
    /\ today = DateOfOrd(0)
    /\ file = AbsentFile
    /\ last = [s \in Sessions |-> NoLast]
    /\ InitCommon

SubmitAddCategory(s) ==
    /\ pc[s] = "ready"
    /\ \E new_cat \in NewCategoryInputs :
         Complete(s, "AddCategory", new_cat, AddCategory(data[s], new_cat))

SubmitRemoveCategories(s) ==
    /\ pc[s] = "ready"
    /\ data[s].categories # <<>>
    /\ \E cats_to_delete \in SUBSET (Range(data[s].categories) \cap RemovableNames) :
         Complete(s, "DeleteSelectedCategories", cats_to_delete,
                  DeleteSelectedCategories(data[s], cats_to_delete))

NextCategories ==
    \E s \in MainSessions :
        \/ load_data(s)
        \/ rollover_month_if_needed(s)
        \/ SubmitAddCategory(s)
        \/ SubmitRemoveCategories(s)
        \/ EndRun(s)

SpecCategories == InitCategories /\ [][NextCategories]_vars

(***************************************************************************)
(* Metrics of the Insights and Savings pages.  A quotient of two floats is *)
(* held exactly, as numerator and denominator.                             *)
(***************************************************************************)
\* a / b
Quotient(a, b) == [num |-> a, den |-> b]

RECURSIVE GCD(_, _)
GCD(a, b) == IF b = 0 THEN a ELSE GCD(b, a % b)

\* a quotient with a positive denominator in lowest terms
Reduced(q) ==
    LET g == GCD(IF q.num < 0 THEN -q.num ELSE q.num, q.den)
    IN  [num |-> q.num \div g, den |-> q.den \div g]

IsLeap(year) == year % 4 = 0 /\ (year % 100 # 0 \/ year % 400 = 0)

\* calendar.monthrange(year, month)[1]
monthrange(year, month) ==
    IF month = 2 /\ IsLeap(year) THEN 29
    ELSE <<31, 28, 31, 30, 31, 30, 31, 31, 30, 31, 30, 31>>[month]

RECURSIVE DaysBeforeMonth(_, _)
DaysBeforeMonth(year, month) ==
    IF month = 1 THEN 0
    ELSE DaysBeforeMonth(year, month - 1) + monthrange(year, month - 1)

\* date.toordinal()
toordinal(d) ==
    LET y == d.year - 1
    IN  y * 365 + (y \div 4) - (y \div 100) + (y \div 400)
        + DaysBeforeMonth(d.year, d.month) + d.day

\* the date a clock read gives one day later
NextDay(d) ==
    IF d.day < monthrange(d.year, d.month) THEN [d EXCEPT !.day = d.day + 1]
    ELSE IF d.month < 12 THEN [year |-> d.year, month |-> d.month + 1, day |-> 1]
    ELSE [year |-> d.year + 1, month |-> 1, day |-> 1]

NoDate == [none |-> TRUE]       \* None, NaT

\* datetime.fromisoformat(s).date() of "YYYY-MM-DD"; NoDate on ValueError
fromisoformat(s) ==
    IF /\ Len(s) = 10
       /\ s[5] = "-" /\ s[8] = "-"
       /\ IsDigits(SubSeq(s, 1, 4)) /\ IsDigits(SubSeq(s, 6, 7))
       /\ IsDigits(SubSeq(s, 9, 10))
       THEN LET y == DigitsValue(SubSeq(s, 1, 4))
                mo == DigitsValue(SubSeq(s, 6, 7))
                dd == DigitsValue(SubSeq(s, 9, 10))
            IN  IF y >= 1 /\ mo \in 1..12 /\ dd >= 1 /\ dd <= monthrange(y, mo)
                   THEN [year |-> y, month |-> mo, day |-> dd]
                ELSE NoDate
    ELSE NoDate

\* the rows of the DataFrame: the date parsed, the amount as a number
transactions_to_dataframe(transactions) ==
    [i \in 1..Len(transactions) |->
        [transactions[i] EXCEPT !.date = fromisoformat(@)]]

RECURSIVE SumAmounts(_, _)
\* df.loc[df["income_or_expenditure"] == kind, "amount"].sum()
SumAmounts(df, kind) ==
    IF df = <<>> THEN 0
    ELSE (IF Head(df).income_or_expenditure = kind THEN Head(df).amount ELSE 0)
         + SumAmounts(Tail(df), kind)

Max0(x) == IF x > 0 THEN x ELSE 0

\* faulty variant: the remaining budget keeps the sign of the net
compute_basic_metrics_Signed(df, monthly_allowance) ==
    LET total_income == SumAmounts(df, "Income")
        total_expense == SumAmounts(df, "Expenditure")
        net_available == monthly_allowance + total_income - total_expense
    IN  [total_income |-> total_income, total_expense |-> total_expense,
         net_available |-> net_available, remaining_budget |-> net_available]

compute_basic_metrics(df, monthly_allowance) ==
    LET total_income == IF df = <<>> THEN 0 ELSE SumAmounts(df, "Income")
        total_expense == IF df = <<>> THEN 0 ELSE SumAmounts(df, "Expenditure")
        net_available == monthly_allowance + total_income - total_expense
    IN  [total_income |-> total_income, total_expense |-> total_expense,
         net_available |-> net_available,
         remaining_budget |-> Max0(net_available)]

\* get_days_in_current_month(), reading the clock as clock_date
get_days_in_current_month(clock_date) == monthrange(clock_date.year, clock_date.month)

\* faulty variant: counts today among the remaining days
compute_insight_metrics_CountsToday(metrics, today_date, later_date) ==
    LET days_in_month == get_days_in_current_month(later_date)
        days_passed == today_date.day
        remaining_days == Max0(days_in_month - days_passed + 1)
    IN  [avg_daily_spent |-> IF days_passed > 0
                                THEN Quotient(metrics.total_expense, days_passed)
                                ELSE Quotient(0, 1),
         remaining_days |-> remaining_days,
         safe_daily_spend |-> IF remaining_days > 0
                                 THEN Quotient(metrics.remaining_budget, remaining_days)
                                 ELSE Quotient(0, 1)]

\* compute_insight_metrics(metrics): date.today() is read at line 283 and
\* again, inside get_days_in_current_month, at line 272
compute_insight_metrics(metrics, today_date, later_date) ==
    LET days_in_month == get_days_in_current_month(later_date)
        days_passed == today_date.day
        remaining_days == Max0(days_in_month - days_passed)
    IN  [avg_daily_spent |-> IF days_passed > 0
                                THEN Quotient(metrics.total_expense, days_passed)
                                ELSE Quotient(0, 1),
         remaining_days |-> remaining_days,
         safe_daily_spend |-> IF remaining_days > 0
                                 THEN Quotient(metrics.remaining_budget, remaining_days)
                                 ELSE Quotient(0, 1)]

\* render_savings: income minus expenses of the open month
current_savings(transactions) ==
    LET df == transactions_to_dataframe(transactions)
    IN  IF df = <<>> THEN 0
        ELSE SumAmounts(df, "Income") - SumAmounts(df, "Expenditure")

\* faulty variant: the progress keeps the sign of the savings
goal_progress_Signed(goal, savings, today_date) ==
    LET target_date_obj == fromisoformat(goal.target_date)
        progress_amount == savings
        remaining == Max0(goal.target_amount - progress_amount)
        days_remaining == IF target_date_obj = NoDate THEN NoDate
                          ELSE [days |-> toordinal(target_date_obj) - toordinal(today_date)]
        shown == days_remaining # NoDate /\ days_remaining.days > 0
    IN  [progress_amount |-> progress_amount,
         progress_percentage |->
             IF goal.target_amount > 0
                /\ progress_amount * 100 < 100 * goal.target_amount
                THEN Quotient(progress_amount * 100, goal.target_amount)
             ELSE IF goal.target_amount > 0 THEN Quotient(100, 1)
             ELSE Quotient(0, 1),
         remaining |-> remaining,
         days_remaining |-> days_remaining,
         pace_shown |-> shown,
         suggested_daily |-> IF shown THEN Quotient(remaining, days_remaining.days)
                             ELSE Quotient(0, 1)]

\* the figures on the card of a goal
goal_progress(goal, savings, today_date) ==
    LET target_date_obj == fromisoformat(goal.target_date)
        progress_amount == Max0(savings)
        remaining == Max0(goal.target_amount - progress_amount)
        days_remaining == IF target_date_obj = NoDate THEN NoDate
                          ELSE [days |-> toordinal(target_date_obj) - toordinal(today_date)]
        shown == days_remaining # NoDate /\ days_remaining.days > 0
    IN  [progress_amount |-> progress_amount,
         \* min(progress_amount / target_amount * 100 if target_amount > 0 else 0, 100)
         progress_percentage |->
             IF goal.target_amount > 0
                /\ progress_amount * 100 < 100 * goal.target_amount
                THEN Quotient(progress_amount * 100, goal.target_amount)
             ELSE IF goal.target_amount > 0 THEN Quotient(100, 1)
             ELSE Quotient(0, 1),
         remaining |-> remaining,
         days_remaining |-> days_remaining,
         pace_shown |-> shown,
         suggested_daily |-> IF shown THEN Quotient(remaining, days_remaining.days)
                             ELSE Quotient(0, 1)]

\* the first leap year from BaseYear on
LeapYear == CHOOSE y \in BaseYear..(BaseYear + 7) :
                IsLeap(y) /\ \A z \in BaseYear..(y - 1) : ~IsLeap(z)

\* days on which the pages are opened
MetricsDates ==
    {[year |-> BaseYear, month |-> 12, day |-> 10],
     [year |-> BaseYear, month |-> 12, day |-> 20],
     [year |-> BaseYear, month |-> 12, day |-> 31],
     [year |-> BaseYear + 1, month |-> 4, day |-> 10],
     [year |-> BaseYear + 1, month |-> 4, day |-> 30],
     [year |-> LeapYear, month |-> 2, day |-> 28],
     [year |-> LeapYear, month |-> 2, day |-> 29],
     [year |-> LeapYear + 1, month |-> 2, day |-> 28]}

MetricsTxPool ==
    LET t == [date |-> isoformat(DateOfOrd(0)), category |-> Food,
              income_or_expenditure |-> "Expenditure", payment_mode |-> "Cash",
              amount |-> 1200000]
    IN  {t, [t EXCEPT !.amount = 300000], [t EXCEPT !.amount = 200000],
         [t EXCEPT !.income_or_expenditure = "Income", !.amount = 500000]}

MetricsGoals ==
    <<[id |-> <<"1", "-">> \o Str(BaseTs), name |-> <<"T", "r", "i", "p">>,
       target_amount |-> 1000000,
       target_date |-> isoformat([year |-> BaseYear, month |-> 12, day |-> 20]),
       created_date |-> isoformat(DateOfOrd(-1))],
      [id |-> <<"2", "-">> \o Str(BaseTs + 1), name |-> <<"B", "o", "o", "k", "s">>,
       target_amount |-> 200000,
       target_date |-> isoformat([year |-> LeapYear, month |-> 2, day |-> 29]),
       created_date |-> isoformat(DateOfOrd(-1))]>>

\* the file of a ledger in use, opened on one of the days
InitMetrics ==
    /\ today \in MetricsDates
    /\ \E allowance \in {-100000, 0, 4500000, 5000000},
          txs \in SeqsUpTo(MetricsTxPool, MaxTx) :
         file = ObjectFile([OpenLedger EXCEPT
                               !.current_month = get_current_month_key(today),
                               !.monthly_allowance = allowance,
                               !.transactions = txs,
                               !.savings_goals = MetricsGoals])
    /\ last = [s \in Sessions |-> NoLast]
    /\ InitCommon

\* a page was rendered with the clock reads args and showed result
Shown(s, op, args, result) ==
    /\ pc' = [pc EXCEPT ![s] = "done"]
    /\ last' = [last EXCEPT ![s] =
                  [op |-> op, outcome |-> "returned", pre |-> data[s],
                   prefile |-> file, key |-> TodayKey, saved |-> FALSE,
                   wasRolled |-> rolled, exc |-> "none",
                   args |-> args, result |-> result]]
    /\ UNCHANGED <<today, now, file, data, rolled, edits>>

\* the Insights page, lines 540-542
render_insights(s) ==
    /\ pc[s] = "ready"
    /\ \E later_date \in {today, NextDay(today)} :
         LET df == transactions_to_dataframe(data[s].transactions)
             basic_metrics == compute_basic_metrics(df, data[s].monthly_allowance)
         IN  Shown(s, "render_insights",
                   [today |-> today, later |-> later_date],
                   [basic_metrics |-> basic_metrics,
                    insight_metrics |->
                        compute_insight_metrics(basic_metrics, today, later_date)])

\* faulty variant: the savings of the archived months count as well
render_savings_Cumulative(s) ==
    /\ pc[s] = "ready"
    /\ LET archives == data[s].archives
           RECURSIVE archived(_)
           archived(keys) ==
               IF keys = {} THEN 0
               ELSE LET k == CHOOSE k \in keys : TRUE
                    IN  current_savings(archives[k].transactions)
                        + archived(keys \ {k})
           savings == current_savings(data[s].transactions) + archived(DOMAIN archives)
       IN  Shown(s, "render_savings", [today |-> today],
                 [current_savings |-> savings,
                  goals |-> [i \in 1..Len(data[s].savings_goals) |->
                                goal_progress(data[s].savings_goals[i], savings, today)]])

\* the Savings page, lines 767-859
render_savings(s) ==
    /\ pc[s] = "ready"
    /\ LET savings == current_savings(data[s].transactions)
       IN  Shown(s, "render_savings", [today |-> today],
                 [current_savings |-> savings,
                  goals |-> [i \in 1..Len(data[s].savings_goals) |->
                                goal_progress(data[s].savings_goals[i], savings, today)]])

NextMetrics ==
    \E s \in MainSessions :
        \/ load_data(s)
        \/ rollover_month_if_needed(s)
        \/ render_insights(s)
        \/ render_savings(s)
        \/ EndRun(s)

SpecMetrics == InitMetrics /\ [][NextMetrics]_vars

(***************************************************************************)
(* "Create Goal" and "Delete Goal", any number of times, on a fresh        *)
(* installation, within two seconds of the clock.                          *)
(***************************************************************************)
MaxGoals == 2          \* goals in the list

InitGoals ==
    /\ today = DateOfOrd(0)
    /\ file = AbsentFile
    /\ last = [s \in Sessions |-> NoLast]
    /\ InitCommon

SubmitCreateGoal(s) ==
    /\ pc[s] = "ready"
    /\ Len(data[s].savings_goals) < MaxGoals
    /\ \E goal_name \in GoalNameInputs, target_amount \in TargetAmountInputs,
          target_date \in TargetDateInputs, t \in {now, BaseTs + 1} :
         LET r == CreateGoal(data[s], goal_name, target_amount, target_date,
                             t, today)
         IN  /\ now' = IF r.saves THEN t ELSE now   \* the clock as last read
             /\ data' = [data EXCEPT ![s] = r.data]
             /\ file' = IF r.saves THEN ObjectFile(r.data) ELSE file
             /\ pc' = [pc EXCEPT ![s] = "done"]
             /\ last' = [last EXCEPT ![s] =
                           [op |-> "CreateGoal",
                            outcome |-> IF r.saves THEN "returned" ELSE "rejected",
                            pre |-> data[s], prefile |-> file, key |-> TodayKey,
                            saved |-> r.saves, wasRolled |-> rolled, exc |-> "none",
                            args |-> [goal_name |-> goal_name,
                                      target_amount |-> target_amount,
                                      target_date |-> target_date, timestamp |-> t],
                            result |-> r]]
    /\ UNCHANGED <<today, rolled, edits>>

SubmitDeleteGoal(s) ==
    /\ pc[s] = "ready"
    /\ \E idx \in 1..Len(data[s].savings_goals) :
         Complete(s, "DeleteGoal", idx, DeleteGoal(data[s], idx))

NextGoals ==
    \E s \in MainSessions :
        \/ load_data(s)
        \/ rollover_month_if_needed(s)
        \/ SubmitCreateGoal(s)
        \/ SubmitDeleteGoal(s)
        \/ EndRun(s)

SpecGoals == InitGoals /\ [][NextGoals]_vars

(***************************************************************************)
(* Two sessions (two browser tabs) on the one file: each runs main() on    *)
(* its own dict, and their steps interleave.  The clock moves forward.     *)
(***************************************************************************)
InitTwo ==
    /\ today = DateOfOrd(0)
    /\ now = BaseTs
    /\ file \in {AbsentFile, ObjectFile(UsedLedger), ObjectFile(OpenLedger)}
    /\ pc = [s \in Sessions |-> "idle"]
    /\ data = [s \in Sessions |-> NoData]
    /\ last = [s \in Sessions |-> NoLast]
    /\ rolled = FALSE
    /\ edits = 0

NextTwo ==
    \/ ClockAdvance
    \/ \E s \in Sessions :
          \/ load_data(s)
          \/ rollover_month_if_needed(s)
          \/ json_dump(s)
          \/ ClickSaveAllowance(s)
          \/ EndRun(s)

SpecTwo == InitTwo /\ [][NextTwo]_vars

(***************************************************************************)
(* The Savings page over a change of month: a ledger with three goals, two *)
(* of them with the same target, last opened in the month before or in use *)
(* this month; the rollover archives the transactions, then the page is    *)
(* rendered.                                                               *)
(***************************************************************************)
InitSavings ==
    /\ today = DateOfOrd(0)
    /\ \E opened \in {DateOfOrd(-1), DateOfOrd(0)} :
         LET i == [date |-> isoformat(opened), category |-> Food,
                   income_or_expenditure |-> "Income", payment_mode |-> "Cash",
                   amount |-> 500000]
             e == [i EXCEPT !.income_or_expenditure = "Expenditure",
                            !.amount = 200000]
             goal(n, name, target, day) ==
                 [id |-> Str(n) \o <<"-">> \o Str(BaseTs), name |-> name,
                  target_amount |-> target,
                  target_date |-> isoformat([year |-> BaseYear + 1, month |-> 6,
                                             day |-> day]),
                  created_date |-> isoformat(DateOfOrd(-2))]
         IN  \E txs \in SeqsUpTo({i, e}, MaxTx) :
                file = ObjectFile(
                    [UsedLedger EXCEPT
                        !.current_month = get_current_month_key(opened),
                        !.transactions = txs,
                        !.savings_goals =
                            <<goal(1, <<"T", "r", "i", "p">>, 1000000, 1),
                              goal(2, <<"B", "i", "k", "e">>, 1000000, 30),
                              goal(3, <<"B", "o", "o", "k", "s">>, 200000, 1)>>])
    /\ last = [s \in Sessions |-> NoLast]
    /\ InitCommon

NextSavings ==
    \/ ClockAdvance
    \/ \E s \in MainSessions :
          \/ load_data(s)
          \/ rollover_month_if_needed(s)
          \/ json_dump(s)
          \/ render_savings(s)
          \/ EndRun(s)

SpecSavings == InitSavings /\ [][NextSavings]_vars

(***************************************************************************)
(* Two sessions that add transactions: each run loads the file into its    *)
(* own dict, and the handler appends to that dict and writes it.           *)
(***************************************************************************)
InitWriters ==
    /\ today = DateOfOrd(0)
    /\ now = BaseTs
    /\ file \in {ObjectFile([OpenLedger EXCEPT !.categories = <<Food>>,
                                               !.transactions = txs]) :
                    txs \in {<<>>, OpenLedger.transactions}}
    /\ pc = [s \in Sessions |-> "idle"]
    /\ data = [s \in Sessions |-> NoData]
    /\ last = [s \in Sessions |-> NoLast]
    /\ rolled = FALSE
    /\ edits = 0

NextWriters ==
    \E s \in Sessions :
        \/ load_data(s)
        \/ rollover_month_if_needed(s)
        \/ SubmitAddTransaction(s)
        \/ EndRun(s)

SpecWriters == InitWriters /\ [][NextWriters]_vars

(***************************************************************************)
(* Properties.                                                             *)
(***************************************************************************)
RolloverReturned(s) == last[s].op = "rollover" /\ last[s].outcome = "returned"

RolloverChangedMonth(s) ==
    RolloverReturned(s) /\ last[s].pre.current_month # last[s].key

\* C1: after rollover_month_if_needed returns, current_month is the key of
\* today's calendar month, whatever the stored key was, and when the stored
\* key differed the open transactions are empty.
C1_RolloverReachesToday ==
    \A s \in Sessions :
        RolloverReturned(s) =>
            /\ last[s].key = ZeroPad(today.year, 4) \o <<"-">> \o ZeroPad(today.month, 2)
            /\ data[s].current_month = last[s].key
            /\ (last[s].pre.current_month # last[s].key
                    => data[s].transactions = <<>>)

\* C1 witness: a rollover across a gap of two months, from a month that had
\* transactions.
C1_Witness ==
    \E s \in Sessions :
        /\ RolloverReturned(s)
        /\ last[s].pre.current_month = get_current_month_key(DateOfOrd(-1))
        /\ today = DateOfOrd(1)
        /\ last[s].pre.transactions # <<>>

\* C2: a rollover call made after another rollover call returned, with the
\* calendar month unchanged in between, changes no field of the document,
\* leaves the file as it is and does not save.
C2_RolloverIdempotent ==
    \A s \in Sessions :
        (RolloverReturned(s) /\ last[s].wasRolled) =>
            /\ data[s] = last[s].pre
            /\ file = last[s].prefile
            /\ ~last[s].saved

\* C2 witness: the second call in a month whose first call archived a month.
C2_Witness ==
    \E s \in Sessions :
        /\ RolloverReturned(s)
        /\ last[s].wasRolled
        /\ file.kind = "object"
        /\ DOMAIN data[s].archives # {}

\* C3: a rollover that finds another month stored archives the old month,
\* with the allowance and transactions it had, iff it had transactions or a
\* non-zero allowance; otherwise the archive keys stay as they were.
C3_ArchivesIffUsed ==
    \A s \in Sessions :
        RolloverChangedMonth(s) =>
            LET pre == last[s].pre
                old == pre.current_month
                used == pre.transactions # <<>> \/ pre.monthly_allowance # 0
            IN  /\ used => /\ old \in DOMAIN data[s].archives
                           /\ data[s].archives[old] =
                                [monthly_allowance |-> pre.monthly_allowance,
                                 transactions |-> pre.transactions]
                /\ ~used => DOMAIN data[s].archives = DOMAIN pre.archives

\* C3 witness: a month with no allowance and no transactions is closed.
C3_Witness ==
    \E s \in Sessions :
        /\ RolloverChangedMonth(s)
        /\ last[s].pre.transactions = <<>>
        /\ last[s].pre.monthly_allowance = 0
        /\ last[s].pre.current_month \notin DOMAIN data[s].archives

\* C4: the open month is never a key of archives.
C4_OpenMonthNotArchived ==
    \A s \in Sessions :
        data[s] # NoData => data[s].current_month \notin DOMAIN data[s].archives

\* C5: no call changes or removes an archives entry the document had before
\* the call.
C5_ArchivesImmutable ==
    \A s \in Sessions :
        (last[s].op \notin {"none", "load"} /\ data[s] # NoData) =>
            \A k \in DOMAIN last[s].pre.archives :
                /\ k \in DOMAIN data[s].archives
                /\ data[s].archives[k] = last[s].pre.archives[k]

\* C6: a rollover leaves the allowance, the categories, the savings goals
\* and the archives of the other months as they were.
C6_RolloverCarriesForward ==
    \A s \in Sessions :
        RolloverReturned(s) =>
            LET pre == last[s].pre
            IN  /\ data[s].monthly_allowance = pre.monthly_allowance
                /\ data[s].categories = pre.categories
                /\ data[s].savings_goals = pre.savings_goals
                /\ \A k \in (DOMAIN pre.archives) \ {pre.current_month} :
                        /\ k \in DOMAIN data[s].archives
                        /\ data[s].archives[k] = pre.archives[k]

\* C6 witness: a month is closed with an allowance set, another month in
\* the archives and a goal whose target date has passed.
C6_Witness ==
    \E s \in Sessions :
        /\ RolloverChangedMonth(s)
        /\ last[s].pre.monthly_allowance # 0
        /\ (DOMAIN last[s].pre.archives) \ {last[s].pre.current_month} # {}
        /\ \E i \in 1..Len(data[s].savings_goals) :
              /\ data[s].savings_goals[i].target_date = isoformat(DateOfOrd(-1))
              /\ OrdOfDate(today) > 0

\* C7: a load never reads a file that a save left empty or cut short.
C7_SaveAtomic ==
    \A s \in Sessions :
        last[s].op = "load" => last[s].prefile.kind # "truncated"

\* C8: a call that reports failure leaves the caller's document and the
\* file as they were before the call.
C8_AllOrNothing ==
    \A s \in Sessions :
        last[s].outcome \in {"failed", "rejected"} =>
            /\ data[s] = last[s].pre
            /\ file = last[s].prefile

\* C9: load_data returns the minimal fallback document, and raises nothing,
\* for every file content that is not a well-formed document.
C9_LoadNeverRaises ==
    \A s \in Sessions :
        (last[s].op = "load" /\ last[s].prefile.kind \notin {"absent", "object"}) =>
            /\ last[s].outcome = "returned"
            /\ data[s] = [current_month |-> last[s].key, monthly_allowance |-> 0,
                          categories |-> <<>>, transactions |-> <<>>,
                          archives |-> EmptyMap, savings_goals |-> <<>>]

\* C10: loading a JSON object that lacks some of the six fields gives each
\* missing field its default and keeps every field of the object as stored.
C10_LoadBackfills ==
    \A s \in Sessions :
        (last[s].op = "load" /\ last[s].prefile.kind = "object") =>
            LET stored == last[s].prefile.doc
                absent(f) == f \notin DOMAIN stored
            IN  /\ last[s].outcome = "returned"
                /\ \A f \in DOMAIN stored : data[s][f] = stored[f]
                /\ absent("current_month") =>
                       data[s].current_month =
                           ZeroPad(today.year, 4) \o <<"-">> \o ZeroPad(today.month, 2)
                /\ absent("monthly_allowance") => data[s].monthly_allowance = 0
                /\ absent("categories") => data[s].categories = <<>>
                /\ absent("transactions") => data[s].transactions = <<>>
                /\ absent("archives") => DOMAIN data[s].archives = {}
                /\ absent("savings_goals") => data[s].savings_goals = <<>>

\* C10 witness: an object with only an allowance and transactions is loaded.
C10_Witness ==
    \E s \in Sessions :
        /\ last[s].op = "load"
        /\ last[s].prefile.kind = "object"
        /\ DOMAIN last[s].prefile.doc = {"monthly_allowance", "transactions"}
        /\ data[s].transactions = <<SampleTx>>
        /\ data[s].categories = <<>>

\* C11: a document that was loaded from the file and is saved again gives
\* the file the content it had (save(load(save(doc))) = save(doc)), and
\* every field of the stored object, known or not, is in the loaded document
\* and in the new content with the value it had.
C11_RoundTrip ==
    \A s \in Sessions :
        (last[s].op = "save" /\ last[s].prefile.kind = "text") =>
            LET before == json_loads(last[s].prefile.text)
                after == json_loads(file.text)
            IN  /\ file = last[s].prefile
                /\ before.ok /\ after.ok
                /\ \A i \in 1..Len(before.v.pairs) :
                      LET k == before.v.pairs[i].k
                      IN  /\ HasKey(last[s].pre, k)
                          /\ GetKey(last[s].pre, k) = before.v.pairs[i].v
                          /\ HasKey(after.v, k)
                          /\ GetKey(after.v, k) = before.v.pairs[i].v

\* C11 witness: a document with transactions, an archive and unknown nested
\* fields was saved, loaded and saved again.
C11_Witness ==
    \E s \in Sessions :
        /\ last[s].op = "save"
        /\ last[s].prefile.kind = "text"
        /\ HasKey(last[s].pre, <<"n", "o", "t", "e", "s">>)
        /\ GetKey(last[s].pre, <<"t", "r", "a", "n", "s", "a", "c", "t", "i", "o", "n", "s">>).items # <<>>
        /\ GetKey(last[s].pre, <<"a", "r", "c", "h", "i", "v", "e", "s">>).pairs # <<>>

\* C12: "Delete Selected Transactions" removes every transaction that has
\* the date, category, kind and payment mode of a selected one and an amount
\* less than 0.01 from it, so all of several duplicates go, and the count it
\* reports is the length before minus the length after.
C12_DeleteRemovesAllMatches ==
    \A s \in Sessions :
        (last[s].op = "DeleteSelectedTransactions" /\ "result" \in DOMAIN last[s]) =>
            LET before == last[s].pre.transactions
                after == data[s].transactions
                selected == {i \in 1..Len(before) :
                               TransactionLabel(before[i]) \in last[s].args}
                equal(a, b) ==
                    /\ a.date = b.date
                    /\ a.category = b.category
                    /\ a.income_or_expenditure = b.income_or_expenditure
                    /\ a.payment_mode = b.payment_mode
                    /\ a.amount - b.amount < 10
                    /\ b.amount - a.amount < 10
            IN  /\ \A i \in 1..Len(before) :
                      (\E j \in selected : equal(before[i], before[j]))
                          => before[i] \notin Range(after)
                /\ last[s].result.deleted_count = Len(before) - Len(after)
                /\ file = ObjectFile(data[s])

\* C12 witness: one row is selected in a ledger that has it twice and a
\* third transaction 0.006 away; the three are removed.
C12_Witness ==
    \E s \in Sessions :
        /\ last[s].op = "DeleteSelectedTransactions"
        /\ "result" \in DOMAIN last[s]
        /\ Cardinality(last[s].args) = 1
        /\ Len(last[s].pre.transactions) = 3
        /\ last[s].pre.transactions[1] = last[s].pre.transactions[2]
        /\ last[s].pre.transactions[3].amount = 1200006
        /\ TransactionLabel(last[s].pre.transactions[1]) \in last[s].args
        /\ last[s].result.deleted_count = 3

\* C13: "Delete Selected Categories" takes the selected names out of
\* categories and changes nothing else: the transactions, also those of a
\* removed category, the archives, the allowance and the goals stay.
C13_RemoveCategoriesFrame ==
    \A s \in Sessions :
        (last[s].op = "DeleteSelectedCategories" /\ "args" \in DOMAIN last[s]) =>
            LET pre == last[s].pre
            IN  /\ data[s].transactions = pre.transactions
                /\ data[s].archives = pre.archives
                /\ data[s].monthly_allowance = pre.monthly_allowance
                /\ data[s].savings_goals = pre.savings_goals
                /\ data[s].current_month = pre.current_month
                /\ Range(data[s].categories) = Range(pre.categories) \ last[s].args
                /\ file = ObjectFile(data[s])

\* C13 witness: the category of a logged transaction is removed.
C13_Witness ==
    \E s \in Sessions :
        /\ last[s].op = "DeleteSelectedCategories"
        /\ "args" \in DOMAIN last[s]
        /\ Food \in last[s].args
        /\ Len(data[s].transactions) = 2
        /\ data[s].transactions[1].category = Food
        /\ Food \notin Range(data[s].categories)

\* C14: "Add Transaction" with an amount <= 0, or with a category that is
\* not in the categories list of the run, leaves the transactions and the
\* file as they were; otherwise it appends the one transaction at the end
\* and saves.
C14_AddTransaction ==
    \A s \in Sessions :
        (last[s].op = "AddTransaction" /\ "args" \in DOMAIN last[s]) =>
            LET pre == last[s].pre
                a == last[s].args
            IN  IF a.amount <= 0 \/ a.category \notin Range(pre.categories)
                   THEN /\ last[s].outcome = "rejected"
                        /\ data[s] = pre
                        /\ file = last[s].prefile
                        /\ ~last[s].saved
                   ELSE /\ last[s].outcome = "returned"
                        /\ Len(data[s].transactions) = Len(pre.transactions) + 1
                        /\ SubSeq(data[s].transactions, 1, Len(pre.transactions))
                              = pre.transactions
                        /\ data[s].transactions[Len(data[s].transactions)] =
                              [date |-> isoformat(a.tx_date), category |-> a.category,
                               income_or_expenditure |-> a.income_or_exp,
                               payment_mode |-> a.payment_mode, amount |-> a.amount]
                        /\ file = ObjectFile(data[s])

\* C14 witness: no category to pick and a positive amount; nothing is added
\* to the two transactions of the ledger.
C14_Witness ==
    \E s \in Sessions :
        /\ last[s].op = "AddTransaction"
        /\ "args" \in DOMAIN last[s]
        /\ last[s].args.amount > 0
        /\ last[s].pre.categories = <<>>
        /\ last[s].outcome = "rejected"
        /\ Len(data[s].transactions) = 2

\* C15: starting from the first-run document, under any sequence of "Add
\* Category" and "Delete Selected Categories" no name is twice in
\* categories, in the dict or in the file; "Add Category" takes the name
\* without its leading and trailing whitespace, changes nothing when that is
\* empty or is, letter for letter, a name of the list, and otherwise appends
\* it at the end and saves.
C15_CategoriesUnique ==
    LET unique(cats) == \A i, j \in 1..Len(cats) : cats[i] = cats[j] => i = j
        nonblank(name) == {i \in 1..Len(name) : name[i] \notin {" ", "\t", "\n"}}
        trimmed(name) ==
            IF nonblank(name) = {} THEN <<>>
            ELSE SubSeq(name,
                        CHOOSE i \in nonblank(name) : \A k \in nonblank(name) : i <= k,
                        CHOOSE j \in nonblank(name) : \A k \in nonblank(name) : j >= k)
    IN  /\ file.kind = "object" => unique(file.doc.categories)
        /\ \A s \in Sessions :
              /\ data[s] # NoData => unique(data[s].categories)
              /\ (last[s].op = "AddCategory" /\ "args" \in DOMAIN last[s]) =>
                    LET pre == last[s].pre
                        name == trimmed(last[s].args)
                    IN  IF name = <<>> \/ name \in Range(pre.categories)
                           THEN /\ data[s] = pre
                                /\ file = last[s].prefile
                                /\ ~last[s].saved
                           ELSE /\ data[s] = [pre EXCEPT !.categories =
                                                 pre.categories \o <<name>>]
                                /\ file = ObjectFile(data[s])

\* C15 witness: "Food" was removed and added again, and " Books " is added
\* to a list that has "Food": "Books" is appended after it.
C15_Witness ==
    \E s \in Sessions :
        /\ last[s].op = "AddCategory"
        /\ "args" \in DOMAIN last[s]
        /\ last[s].args = <<" ", "B", "o", "o", "k", "s", " ">>
        /\ Len(data[s].categories) = 10
        /\ data[s].categories[9] = Food
        /\ data[s].categories[10] = <<"B", "o", "o", "k", "s">>
        /\ <<"f", "o", "o", "d">> \in Range(data[s].categories)

\* C16: the basic metrics of a page are the sum of the Income amounts, the
\* sum of the Expenditure amounts, allowance + income - expense (negative
\* when more was spent) and that net or 0 if it is negative; with no
\* transactions they are 0, 0, A, max(A, 0), and for allowance 5000 with
\* Expenditure 1200, Income 500, Expenditure 300 they are 500, 1500, 4000,
\* 4000.
C16_BasicMetrics ==
    \A s \in Sessions :
        last[s].op = "render_insights" =>
            LET txs == last[s].pre.transactions
                A == last[s].pre.monthly_allowance
                m == last[s].result.basic_metrics
                RECURSIVE total(_, _)
                total(kind, n) ==
                    IF n = 0 THEN 0
                    ELSE total(kind, n - 1)
                         + (IF txs[n].income_or_expenditure = kind
                               THEN txs[n].amount ELSE 0)
                income == total("Income", Len(txs))
                expense == total("Expenditure", Len(txs))
                kinds == [i \in 1..Len(txs) |-> txs[i].income_or_expenditure]
                amounts == [i \in 1..Len(txs) |-> txs[i].amount]
            IN  /\ m.total_income = income
                /\ m.total_expense = expense
                /\ m.net_available = A + income - expense
                /\ m.remaining_budget =
                      (IF m.net_available > 0 THEN m.net_available ELSE 0)
                /\ txs = <<>> =>
                      m = [total_income |-> 0, total_expense |-> 0,
                           net_available |-> A,
                           remaining_budget |-> IF A > 0 THEN A ELSE 0]
                /\ (/\ A = 5000000
                    /\ kinds = <<"Expenditure", "Income", "Expenditure">>
                    /\ amounts = <<1200000, 500000, 300000>>) =>
                      m = [total_income |-> 500000, total_expense |-> 1500000,
                           net_available |-> 4000000, remaining_budget |-> 4000000]

\* C16 witness: more was spent than allowance and income give.
C16_Witness ==
    \E s \in Sessions :
        /\ last[s].op = "render_insights"
        /\ last[s].pre.monthly_allowance = 0
        /\ Len(last[s].pre.transactions) = 3
        /\ last[s].result.basic_metrics.total_income = 500000
        /\ last[s].result.basic_metrics.net_available < 0
        /\ last[s].result.basic_metrics.remaining_budget = 0

C18_GoalIdsUnique ==
    LET unique(goals) == \A i, j \in 1..Len(goals) : goals[i].id = goals[j].id => i = j
    IN  /\ file.kind = "object" => unique(file.doc.savings_goals)
        /\ \A s \in Sessions :
              /\ data[s] # NoData => unique(data[s].savings_goals)
              /\ (last[s].op = "DeleteGoal" /\ last[s].outcome = "returned") =>
                    Len(data[s].savings_goals) >= Len(last[s].pre.savings_goals) - 1

\* C19: on the card of every goal with a target above 0, with S the income
\* minus the expenses of the open month, the progress is max(S, 0), the
\* percentage is progress / target * 100 and at most 100, the remaining
\* amount is max(target - progress, 0), and the daily pace, remaining over
\* the days to the target date, is shown only when those days are above 0;
\* target 1000 with S = 300 gives 30 % and 700.
C19_GoalProgress ==
    \A s \in Sessions :
        last[s].op = "render_savings" =>
            LET txs == last[s].pre.transactions
                goals == last[s].pre.savings_goals
                RECURSIVE total(_, _)
                total(kind, n) ==
                    IF n = 0 THEN 0
                    ELSE total(kind, n - 1)
                         + (IF txs[n].income_or_expenditure = kind
                               THEN txs[n].amount ELSE 0)
                S == total("Income", Len(txs)) - total("Expenditure", Len(txs))
                progress == IF S > 0 THEN S ELSE 0
            IN  /\ last[s].result.current_savings = S
                /\ Len(last[s].result.goals) = Len(goals)
                /\ \A i \in 1..Len(goals) :
                      LET target == goals[i].target_amount
                          r == last[s].result.goals[i]
                          daysRemaining ==
                              toordinal(fromisoformat(goals[i].target_date))
                                  - toordinal(last[s].args.today)
                      IN  target > 0 =>
                            /\ r.progress_amount = progress
                            /\ r.progress_percentage.den # 0
                            /\ Reduced(r.progress_percentage) =
                                  (IF progress >= target THEN [num |-> 100, den |-> 1]
                                   ELSE Reduced([num |-> progress * 100, den |-> target]))
                            /\ r.remaining = (IF target > progress
                                                 THEN target - progress ELSE 0)
                            /\ r.pace_shown <=> daysRemaining > 0
                            /\ r.pace_shown =>
                                  /\ r.suggested_daily.den # 0
                                  /\ r.suggested_daily.num * daysRemaining
                                        = r.remaining * r.suggested_daily.den
                            /\ (target = 1000000 /\ S = 300000) =>
                                  /\ Reduced(r.progress_percentage) = [num |-> 30, den |-> 1]
                                  /\ r.remaining = 700000

\* C19 witness: savings of 300 ten days before the target date of a goal of
\* 1000, and above the target of the other goal.
C19_Witness ==
    \E s \in Sessions :
        /\ last[s].op = "render_savings"
        /\ last[s].result.current_savings = 300000
        /\ last[s].pre.savings_goals[1].target_amount = 1000000
        /\ last[s].result.goals[1].remaining = 700000
        /\ last[s].result.goals[1].pace_shown
        /\ last[s].result.goals[1].days_remaining.days = 10
        /\ last[s].result.goals[2].remaining = 0

\* C20: a rollover call that changed the month has written its dict to the
\* file when it returns; a session b that then loads the file session a's
\* rollover wrote, in that calendar month, gets today's month key and no
\* transactions; and the rollover call b makes on it changes neither b's
\* dict (no archive is written again) nor the file, and does not save.
C20_SecondReaderSeesRollover ==
    [][\A a, b \in Sessions :
          LET written == /\ RolloverChangedMonth(a)
                         /\ pc[a] = "ready"
                         /\ last[a].key = TodayKey
          IN  /\ (/\ pc[a] \in {"loaded", "saving"}
                  /\ pc'[a] = "ready"
                  /\ last'[a].pre.current_month # last'[a].key)
                    => /\ last'[a].saved
                       /\ file' = ObjectFile(data'[a])
              /\ (/\ a # b
                  /\ written
                  /\ file = ObjectFile(data[a])
                  /\ pc[b] = "idle"
                  /\ pc'[b] = "loaded")
                    => /\ data'[b].current_month = TodayKey
                       /\ data'[b].transactions = <<>>
                       /\ data'[b].archives = data[a].archives
              /\ (/\ a # b
                  /\ written
                  /\ pc[b] = "loaded"
                  /\ pc'[b] # "loaded"
                  /\ last[b].op = "load"
                  /\ last[b].prefile = ObjectFile(data[a])
                  /\ last[b].key = TodayKey)
                    => /\ pc'[b] = "ready"
                       /\ data'[b] = data[b]
                       /\ file' = file
                       /\ ~last'[b].saved]_vars

\* C20 witness: session b loaded the file that session a's rollover wrote
\* and its own rollover call returned without a save.
C20_Witness ==
    \E a, b \in Sessions :
        /\ a # b
        /\ RolloverChangedMonth(a)
        /\ last[a].saved
        /\ pc[a] = "ready"
        /\ RolloverReturned(b)
        /\ pc[b] = "ready"
        /\ last[b].wasRolled
        /\ ~last[b].saved
        /\ data[b] = data[a]
        /\ file = ObjectFile(data[a])
        /\ get_current_month_key(DateOfOrd(-1)) \in DOMAIN data[b].archives

\* C21: "Delete Selected Transactions" removes only matches: a transaction
\* that differs from every selected one in its date, category, kind or
\* payment mode, or in its amount by 0.01 or more, is still in the ledger
\* afterwards, and the transactions that are left are in the order they
\* had before.
C21_DeleteRemovesOnlyMatches ==
    \A s \in Sessions :
        (last[s].op = "DeleteSelectedTransactions" /\ "result" \in DOMAIN last[s]) =>
            LET before == last[s].pre.transactions
                after == data[s].transactions
                selected == {i \in 1..Len(before) :
                               TransactionLabel(before[i]) \in last[s].args}
                differs(a, b) ==
                    \/ a.date # b.date
                    \/ a.category # b.category
                    \/ a.income_or_expenditure # b.income_or_expenditure
                    \/ a.payment_mode # b.payment_mode
                    \/ a.amount - b.amount >= 10
                    \/ b.amount - a.amount >= 10
                remain == {i \in 1..Len(before) :
                             \A j \in selected : differs(before[i], before[j])}
            IN  \E f \in [1..Len(after) -> 1..Len(before)] :
                    /\ \A i, j \in 1..Len(after) : i < j => f[i] < f[j]
                    /\ \A i \in 1..Len(after) : after[i] = before[f[i]]
                    /\ remain \subseteq {f[i] : i \in 1..Len(after)}

\* C22: the Savings page measures every goal against one value, the income
\* minus the expenses of the open month's transactions: the progress amount
\* is the same on every card, two goals with the same target show the same
\* percentage and remaining amount, and with no transactions in the open
\* month, as it is right after a rollover, the progress of every goal is 0
\* whatever the archived months hold.
C22_ProgressNotCumulative ==
    \A s \in Sessions :
        last[s].op = "render_savings" =>
            LET txs == last[s].pre.transactions
                goals == last[s].pre.savings_goals
                shown == last[s].result.goals
                RECURSIVE total(_, _)
                total(kind, n) ==
                    IF n = 0 THEN 0
                    ELSE total(kind, n - 1)
                         + (IF txs[n].income_or_expenditure = kind
                               THEN txs[n].amount ELSE 0)
                S == total("Income", Len(txs)) - total("Expenditure", Len(txs))
            IN  /\ DOMAIN shown = DOMAIN goals
                /\ \A i \in DOMAIN goals :
                      shown[i].progress_amount = (IF S > 0 THEN S ELSE 0)
                /\ \A i, j \in DOMAIN goals :
                      goals[i].target_amount = goals[j].target_amount =>
                          /\ shown[i].progress_amount = shown[j].progress_amount
                          /\ shown[i].progress_percentage = shown[j].progress_percentage
                          /\ shown[i].remaining = shown[j].remaining
                /\ txs = <<>> =>
                      \A i \in DOMAIN goals :
                          /\ shown[i].progress_amount = 0
                          /\ shown[i].progress_percentage.num = 0
                          /\ shown[i].remaining = goals[i].target_amount

\* C22 witness: the page is rendered in the run whose rollover archived a
\* month that saved 500; the open month is empty and every goal, the two of
\* target 1000 among them, shows 0.
C22_Witness ==
    \E s \in Sessions :
        /\ last[s].op = "render_savings"
        /\ rolled
        /\ last[s].pre.current_month = TodayKey
        /\ last[s].pre.transactions = <<>>
        /\ file = ObjectFile(last[s].pre)
        /\ \E k \in DOMAIN last[s].pre.archives :
              /\ k = get_current_month_key(DateOfOrd(-1))
              /\ current_savings(last[s].pre.archives[k].transactions) = 500000
        /\ Len(last[s].result.goals) = 3
        /\ last[s].pre.savings_goals[1].target_amount
              = last[s].pre.savings_goals[2].target_amount
        /\ \A i \in 1..3 : last[s].result.goals[i].progress_amount = 0

\* C23: two sessions, no lock.  When session b's dict is the document of
\* the file as it was before session a saved (b loaded before a's save), and
\* b saves after a, the file is b's dict: the transactions of before a's
\* save and b's new one.  What a's save changed in the file is not in it.
C23_LastWriteWins ==
    \A a, b \in Sessions :
        (/\ a # b
         /\ pc[a] = "done" /\ last[a].op = "AddTransaction" /\ last[a].saved
         /\ pc[b] = "done" /\ last[b].op = "AddTransaction" /\ last[b].saved
         /\ last[a].prefile = ObjectFile(last[b].pre)
         /\ last[b].prefile = ObjectFile(data[a]))
            => LET before == last[a].prefile.doc.transactions
                   written == file.doc.transactions
               IN  /\ file = ObjectFile(data[b])
                   /\ Len(written) = Len(before) + 1
                   /\ SubSeq(written, 1, Len(before)) = before
                   /\ written[Len(written)].income_or_expenditure
                         = last[b].args.income_or_exp
                   /\ data[a].transactions # before =>
                         written # Append(data[a].transactions, written[Len(written)])

\* C23 witness: a logged an income and b, which had loaded before, an
\* expense; the file holds the expense and no longer the income a wrote.
C23_Witness ==
    \E a, b \in Sessions :
        /\ a # b
        /\ pc[a] = "done" /\ last[a].op = "AddTransaction" /\ last[a].saved
        /\ pc[b] = "done" /\ last[b].op = "AddTransaction" /\ last[b].saved
        /\ last[a].prefile = ObjectFile(last[b].pre)
        /\ last[b].prefile = ObjectFile(data[a])
        /\ last[a].args.income_or_exp = "Income"
        /\ last[b].args.income_or_exp = "Expenditure"
        /\ last[a].prefile.doc.transactions = <<>>
        /\ Len(data[a].transactions) = 1
        /\ data[a].transactions[1] \notin Range(file.doc.transactions)
        /\ Len(file.doc.transactions) = 1

====
